---- MODULE Spec2Model ----
(***************************************************************************)
(* Atlas-Quant-Platform data plane: the trade ingester                     *)
(* (backend/services/fetcher.py), the candle pipeline                      *)
(* (backend/scheduler.py, backend/services/kline_generator.py) and the     *)
(* order-flow ingester (backend/services/order_flow/*.py).                 *)
(*                                                                         *)
(* Time is an integer number of seconds since 2024-12-31T00:00:00Z.        *)
(* NULL columns and Python None are NoTime / NoErr.  Every scheduled job   *)
(* is a small program counter; one TLA+ step is one loop iteration of the  *)
(* job (one chunk, one day, one worker, one slice) with all the database   *)
(* writes that iteration commits.                                          *)
(***************************************************************************)
EXTENDS Integers, Sequences, FiniteSets, TLC

VARIABLES
    now,            \* wall clock (datetime.utcnow())
    nticks,         \* number of clock advances so far
    ran,            \* job -> it has been executed since the clock last advanced
    fetch_state,    \* table fetch_state: area -> row
    trades,         \* table trades: set of <<trade_id, delivery_area>> rows
    tjob,           \* the running sync_all_areas job
    kline_state,    \* table kline_gen_state: area -> last_generated_time
    candles,        \* table market_candles: set of [area, ts, rows]
    kjob,           \* the running kline_job_function
    agg,            \* history: per upstream trade leg, how many aggregation
                    \* chunks [start, end) contained its whole minute
    klast,          \* history: what the candle pipeline did for the area it
                    \* handled last
    of_state,       \* table order_flow_sync_state: area -> row
    order_contracts,\* table order_contracts: <<contract_id, area>> -> absent,
                    \* pending (is_archived = false), archived
    cold_files,     \* data/order_flow/{area}/{date}/{contract_id}.parquet
    hot_ticks,      \* order_flow_ticks rows written by the archival
    fjob,           \* the running order_flow_sync_job
    unit            \* one operation run on its own: its inputs, its position
                    \* and its results (used by the single-operation
                    \* specifications at the end)

vars == <<now, nticks, ran, fetch_state, trades, tjob, kline_state, candles, kjob,
          agg, klast, of_state, order_contracts, cold_files, hot_ticks, fjob,
          unit>>

-----------------------------------------------------------------------------
(* Units and program constants *)

MINUTE == 60
HOUR == 3600
DAY == 86400
NoTime == -1
NoErr == -1

Min(x, y) == IF x < y THEN x ELSE y

\* AUTO_AREAS: the model keeps the first two of SE1..SE4
AUTO_AREAS == <<"SE1", "SE2">>
Areas == {AUTO_AREAS[i] : i \in 1..Len(AUTO_AREAS)}

\* INITIAL_START_DATE = "2025-01-01T00:00:00Z"
INITIAL_START_DATE == DAY
\* safe_archive_line = now - timedelta(hours=2)
SAFE_LINE_HOURS == 2
\* future_limit = now + timedelta(hours=48)
FUTURE_HOURS == 48
\* chunk_end = min(curr + timedelta(hours=12), ...)
TRADE_CHUNK_HOURS == 12
\* str(error)[:500]
ERR_MAX == 500
\* len("Active window error: ")
ACTIVE_PREFIX_LEN == 21
\* datetime(2024, 12, 31, 23, 59, 0)
KLINE_DEFAULT_PROGRESS == DAY - MINUTE
\* chunk_size = timedelta(hours=6)
KLINE_CHUNK_HOURS == 6

-----------------------------------------------------------------------------
(* Bounds of the model *)

\* clock advances explored
MaxTicks == 1
\* a run whose backfill needs more 12 h chunks than this is not explored
MaxBackfillChunks == 3
\* the coverage counters of agg saturate here
MaxAgg == 2

\* instants at which the process is started
StartTimes == {DAY + 3 * HOUR + 30,
               283 * DAY + 12 * HOUR,
               286 * DAY}
\* clock advances between job executions
TickSteps == {15 * MINUTE, HOUR, 13 * HOUR}
\* lengths of the exception texts str(e)
ErrLens == {600}

-----------------------------------------------------------------------------
(* The upstream trade stream: each trade has a trade time, a delivery     *)
(* start and one leg per delivery area; it is visible upstream from its   *)
(* trade time on.                                                          *)

TradeIds == {"T1", "T2", "T3", "T4"}

UpstreamTrade(id) ==
    CASE id = "T1" -> [tt |-> DAY + 20 * MINUTE + 10, ds |-> DAY + 30 * MINUTE,
                       cid |-> "QH-0030", legs |-> {"SE1"}]
      [] id = "T2" -> [tt |-> DAY + 30 * MINUTE, ds |-> 2 * DAY + 6 * HOUR,
                       cid |-> "PH-3000", legs |-> {"SE1", "SE2"}]
      [] id = "T3" -> [tt |-> DAY + HOUR + 10, ds |-> DAY + 3 * HOUR,
                       cid |-> "PH-0300", legs |-> {"SE1"}]
      [] id = "T4" -> [tt |-> DAY + HOUR + 45, ds |-> DAY + 3 * HOUR,
                       cid |-> "PH-0300", legs |-> {"SE1"}]

\* every row the flattener can emit
AllRows == {<<id, a>> : id \in TradeIds, a \in Areas}
Legs == {r \in AllRows : r[2] \in UpstreamTrade(r[1]).legs}

\* GET Trades/ByDeliveryStart?areas=area&deliveryStartFrom&deliveryStartTo
fetch_api_chunk(area, from, to, at) ==
    {id \in TradeIds : /\ area \in UpstreamTrade(id).legs
                       /\ from <= UpstreamTrade(id).ds
                       /\ UpstreamTrade(id).ds < to
                       /\ UpstreamTrade(id).tt <= at}

\* one row per (trade, leg), whatever the leg's area
flatten_and_parse(raw, area) ==
    {r \in Legs : r[1] \in raw}

\* INSERT ... ON CONFLICT (trade_id, delivery_area, trade_side) DO UPDATE
save_chunk_to_db(tbl, data) == tbl \cup data

FloorMinute(t) == t - (t % MINUTE)
FloorDay(t) == t - (t % DAY)

-----------------------------------------------------------------------------
(* Trade ingester: fetcher.py *)

NoFetchRow == [exists |-> FALSE, lft |-> NoTime, status |-> "none", err |-> NoErr]

\* update_fetch_state without its "if last_time:" guard
update_fetch_state_unguarded(row, last_time, status, error) ==
    [exists |-> TRUE,
     lft    |-> last_time,
     status |-> status,
     err    |-> IF error # NoErr /\ error > 0 THEN Min(error, ERR_MAX) ELSE NoErr]

\* update_fetch_state without the [:500] cut of the error text
update_fetch_state_untruncated(row, last_time, status, error) ==
    [exists |-> TRUE,
     lft    |-> IF last_time # NoTime THEN last_time ELSE row.lft,
     status |-> status,
     err    |-> IF error # NoErr /\ error > 0 THEN error ELSE NoErr]

\* update_fetch_state(db, area, last_time=None, status="running", error=None)
update_fetch_state(row, last_time, status, error) ==
    [exists |-> TRUE,
     lft    |-> IF last_time # NoTime THEN last_time ELSE row.lft,
     status |-> status,
     err    |-> IF error # NoErr /\ error > 0 THEN Min(error, ERR_MAX) ELSE NoErr]

\* archived_time: the checkpoint, or the configured start on a cold start
archived_time(row) ==
    IF row.exists /\ row.lft # NoTime THEN row.lft ELSE INITIAL_START_DATE

safe_archive_line(t) == t - SAFE_LINE_HOURS * HOUR
future_limit(t) == t + FUTURE_HOURS * HOUR

\* a chunk end that leaves the cursor where it is
trade_chunk_end_stuck(curr, limit) == curr

\* chunk_end = min(curr + timedelta(hours=12), limit)
trade_chunk_end(curr, limit) == Min(curr + TRADE_CHUNK_HOURS * HOUR, limit)

\* number of backfill chunks a run started at t needs for this row
Backlog(row, t) ==
    LET d == safe_archive_line(t) - archived_time(row)
    IN  IF d <= 0 THEN 0
        ELSE (d + TRADE_CHUNK_HOURS * HOUR - 1) \div (TRADE_CHUNK_HOURS * HOUR)

\* an active-window chunk that called update_fetch_state(last_time=chunk_end)
active_chunk_checkpoint_advanced(row, chunk_end) ==
    update_fetch_state(row, chunk_end, "running", NoErr)

\* what an active-window chunk does to the checkpoint row: nothing
active_chunk_checkpoint(row, chunk_end) == row

\* between executions; ran: the job has run since the clock last advanced
TIdle == [pc |-> "idle", i |-> 0, curr |-> NoTime, now |-> NoTime]

TArea == AUTO_AREAS[tjob.i]

\* a loop over the areas that an exception leaves
TNextArea_abort == TIdle

\* sync_all_areas: for area in AUTO_AREAS ...
TNextArea ==
    IF tjob.i < Len(AUTO_AREAS)
    THEN [pc |-> "begin", i |-> tjob.i + 1, curr |-> NoTime, now |-> NoTime]
    ELSE TIdle

UnchangedKline ==
    UNCHANGED <<kline_state, candles, kjob, agg, klast, of_state, order_contracts,
                cold_files, hot_ticks, fjob, unit>>

Jobs == {"trade", "kline", "flow"}

TradeJobStart ==
    /\ tjob.pc = "idle" /\ kjob.pc = "idle" /\ fjob.pc = "idle"
    /\ ~ran["trade"]
    /\ ran' = [ran EXCEPT !["trade"] = TRUE]
    /\ \A a \in Areas : Backlog(fetch_state[a], now) <= MaxBackfillChunks
    /\ tjob' = [pc |-> "begin", i |-> 1, curr |-> NoTime, now |-> NoTime]
    /\ UNCHANGED <<now, nticks, fetch_state, trades>>
    /\ UnchangedKline

\* sync_area_logic up to the first loop: read the checkpoint, the clock and
\* a token; a failed get_token() raises out of sync_area_logic
SyncAreaBegin ==
    /\ tjob.pc = "begin"
    /\ \E token_ok \in BOOLEAN :
         IF token_ok
         THEN LET curr == archived_time(fetch_state[TArea])
              IN  tjob' = [tjob EXCEPT !.pc = IF curr < safe_archive_line(now)
                                              THEN "backfill" ELSE "active",
                                       !.curr = curr,
                                       !.now = now]
         ELSE tjob' = TNextArea
    /\ UNCHANGED <<now, nticks, ran, fetch_state, trades>>
    /\ UnchangedKline

\* one iteration of "while curr < safe_archive_line"
BackfillChunk ==
    /\ tjob.pc = "backfill"
    /\ LET a == TArea
           limit == safe_archive_line(tjob.now)
           chunk_end == trade_chunk_end(tjob.curr, limit)
           data == flatten_and_parse(fetch_api_chunk(a, tjob.curr, chunk_end, now), a)
       IN  \/ \* fetched and upserted
              /\ trades' = save_chunk_to_db(trades, data)
              /\ fetch_state' = [fetch_state EXCEPT
                     ![a] = update_fetch_state(@, chunk_end, "running", NoErr)]
              /\ tjob' = [tjob EXCEPT !.curr = chunk_end,
                                      !.pc = IF chunk_end < limit THEN "backfill"
                                             ELSE "active"]
           \/ \* the upsert raised: save_chunk_to_db logs, rolls back, returns
              /\ data # {}
              /\ trades' = trades
              /\ fetch_state' = [fetch_state EXCEPT
                     ![a] = update_fetch_state(@, chunk_end, "running", NoErr)]
              /\ tjob' = [tjob EXCEPT !.curr = chunk_end,
                                      !.pc = IF chunk_end < limit THEN "backfill"
                                             ELSE "active"]
           \/ \* the request failed: status error, the area's run stops
              \E elen \in ErrLens :
                /\ trades' = trades
                /\ fetch_state' = [fetch_state EXCEPT
                       ![a] = update_fetch_state(@, NoTime, "error", elen)]
                /\ tjob' = TNextArea
    /\ UNCHANGED <<now, nticks, ran>>
    /\ UnchangedKline

\* one iteration of "while active_start < future_limit"
ActiveChunk ==
    /\ tjob.pc = "active"
    /\ LET a == TArea
           limit == future_limit(tjob.now)
           chunk_end == trade_chunk_end(tjob.curr, limit)
           data == flatten_and_parse(fetch_api_chunk(a, tjob.curr, chunk_end, now), a)
       IN  \/ /\ trades' = save_chunk_to_db(trades, data)
              /\ fetch_state' = [fetch_state EXCEPT
                     ![a] = active_chunk_checkpoint(@, chunk_end)]
              /\ tjob' = [tjob EXCEPT !.curr = chunk_end,
                                      !.pc = IF chunk_end < limit THEN "active"
                                             ELSE "final"]
           \/ /\ data # {}
              /\ trades' = trades
              /\ fetch_state' = [fetch_state EXCEPT
                     ![a] = active_chunk_checkpoint(@, chunk_end)]
              /\ tjob' = [tjob EXCEPT !.curr = chunk_end,
                                      !.pc = IF chunk_end < limit THEN "active"
                                             ELSE "final"]
           \/ \* the request failed: status warning, break
              \E elen \in ErrLens :
                /\ trades' = trades
                /\ fetch_state' = [fetch_state EXCEPT
                       ![a] = update_fetch_state(@, NoTime, "warning",
                                                 ACTIVE_PREFIX_LEN + elen)]
                /\ tjob' = [tjob EXCEPT !.pc = "final"]
    /\ UNCHANGED <<now, nticks, ran>>
    /\ UnchangedKline

\* the last statement of sync_area_logic: update_fetch_state(status="ok")
SyncAreaFinal ==
    /\ tjob.pc = "final"
    /\ fetch_state' = [fetch_state EXCEPT
           ![TArea] = update_fetch_state(@, NoTime, "ok", NoErr)]
    /\ tjob' = TNextArea
    /\ UNCHANGED <<now, nticks, ran, trades>>
    /\ UnchangedKline

-----------------------------------------------------------------------------
(* Candle pipeline: scheduler.py kline_job_function, kline_generator.py *)

\* the value of a Python call that falls off the end of its function
PyNone == -1

AreaCandles(tbl, a) == {c \in tbl : c.area = a}

MaxTs(cs) == CHOOSE t \in {c.ts : c \in cs} : \A c \in cs : c.ts <= t

\* get_kline_progress: the state row, else the newest candle, else the default
get_kline_progress(a) ==
    IF kline_state[a] # NoTime THEN kline_state[a]
    ELSE IF AreaCandles(candles, a) # {} THEN MaxTs(AreaCandles(candles, a))
    ELSE KLINE_DEFAULT_PROGRESS

\* _get_fetch_progress
get_fetch_progress(a) ==
    IF fetch_state[a].exists /\ fetch_state[a].lft # NoTime
    THEN fetch_state[a].lft ELSE NoTime

\* a safe end that ignores the trade checkpoint
safe_end_ungated(now_dt, fetch_limit) == now_dt

\* safe_end_dt = min(now_dt, fetch_limit)
safe_end_dt(now_dt, fetch_limit) == Min(now_dt, fetch_limit)

\* batch_end = min(current_pointer + chunk_size, safe_end_dt)
batch_end_of(current_pointer, safe_end) ==
    Min(current_pointer + KLINE_CHUNK_HOURS * HOUR, safe_end)

\* SELECT ... FROM trades WHERE delivery_area = :area
\*   AND trade_time >= :start AND trade_time < :end
chunk_query(tbl, a, s, e) ==
    {r \in tbl : /\ r[2] = a
                 /\ s <= UpstreamTrade(r[1]).tt
                 /\ UpstreamTrade(r[1]).tt < e}

\* groupby contract_id, resample 1min: one candle per (contract, minute); the
\* record keeps the group's rows, its value columns are candle_values(rows)
candles_of(rows, a) ==
    {[cid  |-> UpstreamTrade(r[1]).cid,
      ts   |-> FloorMinute(UpstreamTrade(r[1]).tt),
      area |-> a,
      rows |-> {q \in rows : /\ UpstreamTrade(q[1]).cid = UpstreamTrade(r[1]).cid
                              /\ FloorMinute(UpstreamTrade(q[1]).tt)
                                   = FloorMinute(UpstreamTrade(r[1]).tt)}]
       : r \in rows}

\* the price and volume columns of a stored trade row, in whole units
trade_price(r) ==
    CASE r[1] = "T1" -> 50 [] r[1] = "T2" -> 40 [] r[1] = "T3" -> 30
      [] r[1] = "T4" -> 60

trade_volume(r) ==
    CASE r[1] = "T1" -> 3 [] r[1] = "T2" -> 5 [] r[1] = "T3" -> 2
      [] r[1] = "T4" -> 4

\* resample('1min').sum() of volume
RECURSIVE volume_sum(_)
volume_sum(rows) ==
    IF rows = {} THEN 0
    ELSE LET r == CHOOSE x \in rows : TRUE
         IN  trade_volume(r) + volume_sum(rows \ {r})

\* resample('1min').sum() of pv = price * volume
RECURSIVE pv_sum(_)
pv_sum(rows) ==
    IF rows = {} THEN 0
    ELSE LET r == CHOOSE x \in rows : TRUE
         IN  trade_price(r) * trade_volume(r) + pv_sum(rows \ {r})

\* the value columns of the candle built from the rows of one (contract,
\* minute) group: ORDER BY trade_time ASC and resample('1min').ohlc() give the
\* first and last price, max and min; vwap = pv / volume is kept as the
\* fraction <<pv, volume>>
candle_values(rows) ==
    LET first == CHOOSE r \in rows :
                     \A q \in rows : UpstreamTrade(r[1]).tt <= UpstreamTrade(q[1]).tt
        last == CHOOSE r \in rows :
                    \A q \in rows : UpstreamTrade(q[1]).tt <= UpstreamTrade(r[1]).tt
        prices == {trade_price(r) : r \in rows}
    IN  [open |-> trade_price(first),
         high |-> CHOOSE p \in prices : \A q \in prices : q <= p,
         low |-> CHOOSE p \in prices : \A q \in prices : p <= q,
         close |-> trade_price(last),
         volume |-> volume_sum(rows), trade_count |-> Cardinality(rows),
         vwap |-> <<pv_sum(rows), volume_sum(rows)>>]

\* INSERT ... ON CONFLICT (contract_id, timestamp, area) DO UPDATE
upsert_candles(tbl, batch) ==
    {c \in tbl : ~ \E b \in batch : b.cid = c.cid /\ b.ts = c.ts /\ b.area = c.area}
      \cup batch

\* generate_1min_candles_chunk: the candle table after the chunk
generate_1min_candles_chunk(ctbl, ttbl, a, s, e) ==
    upsert_candles(ctbl, candles_of(chunk_query(ttbl, a, s, e), a))

\* generate_1min_candles: day-sized chunks from start to end.  The caller
\* passes both ends as '%Y-%m-%dT%H:%M:%SZ' strings and they are parsed back
\* with fromisoformat: the round trip drops the fraction of a second, which
\* whole seconds do not have.
RECURSIVE generate_1min_candles(_, _, _, _, _)
generate_1min_candles(ctbl, ttbl, a, current, end_dt) ==
    IF current < end_dt
    THEN LET chunk_end == Min(current + DAY, end_dt)
         IN  generate_1min_candles(
                 generate_1min_candles_chunk(ctbl, ttbl, a, current, chunk_end),
                 ttbl, a, chunk_end, end_dt)
    ELSE ctbl

\* what generate_1min_candles returns to its caller: it has no return
generate_1min_candles_return(total_generated) == PyNone

\* "if generated_count > 0" raises TypeError on None
gt_zero_raises(v) == v = PyNone

\* history: the chunk [s, e) of area a contains the minute of some legs
Bump(n) == Min(n + 1, MaxAgg)

agg_after(cur, a, s, e) ==
    [r \in Legs |->
        LET m == FloorMinute(UpstreamTrade(r[1]).tt)
        IN  IF r[2] = a /\ s <= m /\ m + MINUTE <= e
            THEN Bump(cur[r]) ELSE cur[r]]

KIdle == [pc |-> "idle", i |-> 0, now |-> NoTime, cur |-> NoTime, safe_end |-> NoTime]

NoKlast == [area |-> "none", read |-> NoTime, fl |-> NoTime, safe_end |-> NoTime,
            open |-> FALSE, s |-> NoTime, e |-> NoTime, wrote |-> NoTime,
            over |-> FALSE]

\* for area in ["SE1", "SE2", "SE3", "SE4"]: the same areas as AUTO_AREAS
KArea == AUTO_AREAS[kjob.i]

KNextArea ==
    IF kjob.i < Len(AUTO_AREAS)
    THEN [kjob EXCEPT !.pc = "area", !.i = kjob.i + 1, !.cur = NoTime,
                      !.safe_end = NoTime]
    ELSE KIdle

UnchangedTrade ==
    UNCHANGED <<fetch_state, trades, tjob, of_state, order_contracts, cold_files,
                hot_ticks, fjob, unit>>

\* kline_job_function: now_dt = datetime.now(timezone.utc)
KlineJobStart ==
    /\ kjob.pc = "idle" /\ tjob.pc = "idle" /\ fjob.pc = "idle"
    /\ ~ran["kline"]
    /\ ran' = [ran EXCEPT !["kline"] = TRUE]
    /\ kjob' = [pc |-> "area", i |-> 1, now |-> now, cur |-> NoTime,
                safe_end |-> NoTime]
    /\ klast' = NoKlast
    /\ UNCHANGED <<now, nticks, kline_state, candles, agg>>
    /\ UnchangedTrade

\* the head of the per-area loop: the two checkpoints and the gate
KlineArea ==
    /\ kjob.pc = "area"
    /\ LET a == KArea
           last_progress == get_kline_progress(a)
           start_dt == last_progress + MINUTE
           fetch_limit == get_fetch_progress(a)
           safe_end == safe_end_dt(kjob.now, fetch_limit)
           open == fetch_limit # NoTime /\ start_dt < safe_end
       IN  /\ klast' = [NoKlast EXCEPT !.area = a, !.read = last_progress,
                                       !.fl = fetch_limit,
                                       !.safe_end = IF fetch_limit = NoTime
                                                    THEN NoTime ELSE safe_end,
                                       !.open = open, !.over = ~open]
           /\ kjob' = IF open
                      THEN [kjob EXCEPT !.pc = "chunk", !.cur = start_dt,
                                        !.safe_end = safe_end]
                      ELSE KNextArea
    /\ UNCHANGED <<now, nticks, ran, kline_state, candles, agg>>
    /\ UnchangedTrade

\* one iteration of "while current_pointer < safe_end_dt": aggregate,
\* update_kline_progress, compare the count, commit; an exception leaves the
\* loop over the areas and rolls the uncommitted progress row back
KlineChunk ==
    /\ kjob.pc = "chunk"
    /\ LET a == KArea
           batch_end == batch_end_of(kjob.cur, kjob.safe_end)
           generated_count == generate_1min_candles_return(0)
       IN  /\ candles' = generate_1min_candles(candles, trades, a, kjob.cur, batch_end)
           /\ agg' = agg_after(agg, a, kjob.cur, batch_end)
           /\ IF gt_zero_raises(generated_count)
              THEN /\ kline_state' = kline_state
                   /\ kjob' = KIdle
                   /\ klast' = [klast EXCEPT !.s = kjob.cur, !.e = batch_end,
                                             !.wrote = batch_end, !.over = TRUE]
              ELSE /\ kline_state' = [kline_state EXCEPT ![a] = batch_end]
                   /\ kjob' = IF batch_end < kjob.safe_end
                              THEN [kjob EXCEPT !.cur = batch_end]
                              ELSE KNextArea
                   /\ klast' = [klast EXCEPT !.s = kjob.cur, !.e = batch_end,
                                             !.wrote = batch_end,
                                             !.over = ~(batch_end < kjob.safe_end)]
    /\ UNCHANGED <<now, nticks, ran>>
    /\ UnchangedTrade

-----------------------------------------------------------------------------
(* Order-flow ingester: order_flow/manager.py, storage.py, processor.py *)

\* INITIAL_START_DATE = "2025-10-01T00:00:00"
OF_INITIAL_START_DATE == 274 * DAY
\* realtime_start = now - timedelta(hours=1)
RT_INITIAL_BACK_HOURS == 1
\* archive_limit = now - timedelta(hours=48)
ARCHIVE_DELAY_HOURS == 48
\* hot_cold_threshold = now - timedelta(days=7)
HOT_COLD_DAYS == 7
\* fetch_start = last_time - timedelta(minutes=1)
RT_OVERLAP_MINUTES == 1
\* chunk_size = timedelta(hours=4)
RT_SLICE_HOURS == 4

\* the upstream contract list of a delivery day, the same in every area
ContractIds == {"c1", "c2"}
ContractDay(c) == OF_INITIAL_START_DATE + 2 * DAY
UpstreamContracts(day) == {c \in ContractIds : ContractDay(c) = day}

\* what an upstream GET can answer: nothing (the request raises), a payload
\* without order rows, a payload with order rows
Payloads == {"http_fail", "empty", "rows"}

NoSyncRow == [exists |-> FALSE, lat |-> NoTime, lrt |-> NoTime]

\* _get_or_create_state
get_or_create_state(row, t) ==
    IF row.exists THEN row
    ELSE [exists |-> TRUE, lat |-> OF_INITIAL_START_DATE,
          lrt |-> t - RT_INITIAL_BACK_HOURS * HOUR]

\* _update_checkpoint: only a later time replaces last_realtime_time
update_checkpoint(row, new_time) ==
    IF ~row.exists THEN [exists |-> TRUE, lat |-> NoTime, lrt |-> new_time]
    ELSE IF new_time > row.lrt THEN [row EXCEPT !.lrt = new_time] ELSE row

archive_limit(t) == t - ARCHIVE_DELAY_HOURS * HOUR
hot_cold_threshold(t) == t - HOT_COLD_DAYS * DAY

\* curr = (last_archived or now - 8 days).replace(hour=0, minute=0, ...)
archive_start(row, t) ==
    FloorDay(IF row.lat # NoTime THEN row.lat ELSE t - 8 * DAY)

\* a step of one hour instead of one day
next_day_short(curr) == curr + HOUR

\* curr += timedelta(days=1)
next_day(curr) == curr + DAY

\* save_contracts: INSERT ... ON CONFLICT (contract_id, delivery_area)
\* DO UPDATE of name and open/close times; is_archived keeps its value
save_contracts(tbl, a, cs) ==
    [k \in DOMAIN tbl |->
        IF k[2] = a /\ k[1] \in cs /\ tbl[k] = "absent" THEN "pending" ELSE tbl[k]]

\* the rows of (area, day) with is_archived = false
unarchived(tbl, a, day) ==
    {c \in ContractIds : ContractDay(c) = day /\ tbl[<<c, a>>] = "pending"}

\* mark_contract_archived: UPDATE order_contracts SET is_archived = true
\* WHERE contract_id = :contract_id
mark_contract_archived(tbl, cid) ==
    [k \in DOMAIN tbl |->
        IF k[1] = cid /\ tbl[k] # "absent" THEN "archived" ELSE tbl[k]]

\* process_historical_revisions_response: building an OrderFlowTick with
\* keyword arguments the mapped class lacks raises; otherwise the result is
\* the dict {'ticks': [...], 'snapshots': [...]}
process_historical_revisions_response(payload) ==
    IF payload = "rows" THEN [raised |-> TRUE, val |-> "none"]
    ELSE [raised |-> FALSE, val |-> "dict"]

\* "if ticks:" - a dict with two keys is true, an empty list is false
is_truthy(val) == val \in {"dict", "list"}

\* save_ticks / save_ticks_to_parquet read t.tick_id of every element; the
\* elements of a dict are its keys, which are strings
store_raises(val) == val = "dict"

\* _process_single_contract: what the worker changes
\*   stored: the ticks reached the cold or the hot store
\*   marked: mark_contract_archived was called
process_single_contract(payload) ==
    IF payload = "http_fail" THEN [stored |-> FALSE, marked |-> FALSE]
    ELSE LET r == process_historical_revisions_response(payload)
         IN  IF r.raised THEN [stored |-> FALSE, marked |-> FALSE]
             ELSE IF is_truthy(r.val)
                  THEN IF store_raises(r.val)
                       THEN [stored |-> FALSE, marked |-> FALSE]
                       ELSE [stored |-> TRUE, marked |-> TRUE]
                  ELSE [stored |-> FALSE, marked |-> TRUE]

\* a check that ignores the remaining count
day_complete_always(remaining) == TRUE

\* "if remaining == 0": the day is complete
day_complete(remaining) == remaining = 0

\* process_api_response builds OrderFlowTick(timestamp=..., state=..., ...):
\* it raises as soon as the response holds one revision
process_api_response_raises(payload) == payload = "rows"

FIdle == [pc |-> "idle", i |-> 0, now |-> NoTime, curr |-> NoTime,
          pending |-> {}, res |-> [c \in ContractIds |-> "none"],
          list_ok |-> TRUE, lat0 |-> NoTime, days |-> 0,
          cur |-> NoTime, end |-> NoTime]

FArea == AUTO_AREAS[fjob.i]

FNextArea ==
    IF fjob.i < Len(AUTO_AREAS)
    THEN [FIdle EXCEPT !.pc = "hist_begin", !.i = fjob.i + 1]
    ELSE FIdle

\* leaving sync_history_backfill: sync_realtime is next
FToRealtime(j) == [j EXCEPT !.pc = "rt_begin"]

UnchangedFlow == UNCHANGED <<of_state, order_contracts, cold_files, hot_ticks, fjob>>

UnchangedTK == UNCHANGED <<fetch_state, trades, tjob, kline_state, candles, kjob,
                           agg, klast, unit>>

\* order_flow_sync_job -> sync_all: for each area the historical archival,
\* then the realtime stream.  The runs before the first archival day only move
\* the realtime checkpoint and are left out to bound the state space.
FlowJobStart ==
    /\ fjob.pc = "idle" /\ tjob.pc = "idle" /\ kjob.pc = "idle"
    /\ ~ran["flow"]
    /\ now >= OF_INITIAL_START_DATE
    /\ ran' = [ran EXCEPT !["flow"] = TRUE]
    /\ fjob' = [FIdle EXCEPT !.pc = "hist_begin", !.i = 1]
    /\ UNCHANGED <<now, nticks, of_state, order_contracts, cold_files, hot_ticks>>
    /\ UnchangedTK

\* sync_history_backfill up to the while loop
HistBegin ==
    /\ fjob.pc = "hist_begin"
    /\ LET a == FArea
           row == get_or_create_state(of_state[a], now)
           curr == archive_start(row, now)
       IN  /\ of_state' = [of_state EXCEPT ![a] = row]
           /\ fjob' = IF curr >= archive_limit(now)
                      THEN FToRealtime([fjob EXCEPT !.now = now, !.lat0 = row.lat])
                      ELSE [fjob EXCEPT !.pc = "hist_list", !.now = now,
                                        !.curr = curr, !.lat0 = row.lat]
    /\ UNCHANGED <<now, nticks, ran, order_contracts, cold_files, hot_ticks>>
    /\ UnchangedTK

\* after curr moved to the next day: the while condition
FAfterAdvance(j, curr) ==
    IF curr < archive_limit(j.now)
    THEN [j EXCEPT !.pc = "hist_list", !.curr = curr, !.pending = {},
                   !.res = [c \in ContractIds |-> "none"],
                   !.days = Min(j.days + 1, 2)]
    ELSE FToRealtime([j EXCEPT !.curr = curr, !.pending = {},
                   !.res = [c \in ContractIds |-> "none"],
                   !.days = Min(j.days + 1, 2)])

\* one day of the loop up to the worker pool: the contract list, its upsert,
\* the query of the unarchived contracts of the day
HistList ==
    /\ fjob.pc = "hist_list"
    /\ LET a == FArea
           day == fjob.curr
       IN  \/ \* fetch_contract_list raised: break
              /\ fjob' = FToRealtime([fjob EXCEPT !.list_ok = FALSE])
              /\ UNCHANGED <<of_state, order_contracts>>
           \/ LET tbl == save_contracts(order_contracts, a, UpstreamContracts(day))
                  pending == unarchived(tbl, a, day)
              IN  /\ order_contracts' = tbl
                  /\ IF pending = {}
                     THEN /\ of_state' = [of_state EXCEPT ![a].lat = next_day(day)]
                          /\ fjob' = FAfterAdvance(fjob, next_day(day))
                     ELSE /\ of_state' = of_state
                          /\ fjob' = [fjob EXCEPT !.pc = "pool",
                                        !.pending = pending,
                                        !.res = [c \in ContractIds |->
                                            IF c \in pending THEN "todo" ELSE "none"]]
    /\ UNCHANGED <<now, nticks, ran, cold_files, hot_ticks>>
    /\ UnchangedTK

\* one worker of the pool: _process_single_contract for one pending contract
Worker ==
    /\ fjob.pc = "pool"
    /\ \E c \in fjob.pending, payload \in Payloads :
         /\ fjob.res[c] = "todo"
         /\ LET a == FArea
                day == fjob.curr
                is_cold == day < hot_cold_threshold(fjob.now)
                w == process_single_contract(payload)
            IN  /\ cold_files' = IF w.stored /\ is_cold
                                 THEN cold_files \cup {<<a, day, c>>} ELSE cold_files
                /\ hot_ticks' = IF w.stored /\ ~is_cold
                                THEN hot_ticks \cup {<<a, c>>} ELSE hot_ticks
                /\ order_contracts' = IF w.marked
                                      THEN mark_contract_archived(order_contracts, c)
                                      ELSE order_contracts
                /\ fjob' = [fjob EXCEPT !.res[c] = payload]
    /\ UNCHANGED <<now, nticks, ran, of_state>>
    /\ UnchangedTK

\* after the pool: count the unarchived contracts of the day again
HistCheck ==
    /\ fjob.pc = "pool"
    /\ \A c \in fjob.pending : fjob.res[c] # "todo"
    /\ LET a == FArea
           day == fjob.curr
           remaining == Cardinality(unarchived(order_contracts, a, day))
       IN  IF day_complete(remaining)
           THEN /\ of_state' = [of_state EXCEPT ![a].lat = next_day(day)]
                /\ fjob' = FAfterAdvance(fjob, next_day(day))
           ELSE /\ of_state' = of_state
                /\ fjob' = FToRealtime(fjob)
    /\ UNCHANGED <<now, nticks, ran, order_contracts, cold_files, hot_ticks>>
    /\ UnchangedTK

\* sync_realtime up to the loop over the slices
RtBegin ==
    /\ fjob.pc = "rt_begin"
    /\ LET a == FArea
           row == get_or_create_state(of_state[a], now)
           fetch_start == row.lrt - RT_OVERLAP_MINUTES * MINUTE
       IN  /\ of_state' = [of_state EXCEPT ![a] = row]
           /\ fjob' = [fjob EXCEPT !.pc = "rt_slice", !.cur = fetch_start,
                                   !.end = now]
    /\ UNCHANGED <<now, nticks, ran, order_contracts, cold_files, hot_ticks>>
    /\ UnchangedTK

\* one slice of fetch_recent_orders, or the end of the stream and
\* _update_checkpoint(area, fetch_end)
RtSlice ==
    /\ fjob.pc = "rt_slice"
    /\ LET a == FArea
       IN  IF fjob.cur < fjob.end
           THEN \E payload \in Payloads :
                  /\ of_state' = of_state
                  /\ IF payload # "http_fail" /\ process_api_response_raises(payload)
                     THEN fjob' = FNextArea
                     ELSE fjob' = [fjob EXCEPT
                              !.cur = Min(fjob.cur + RT_SLICE_HOURS * HOUR, fjob.end)]
           ELSE /\ of_state' = [of_state EXCEPT
                                   ![a] = update_checkpoint(@, fjob.end)]
                /\ fjob' = FNextArea
    /\ UNCHANGED <<now, nticks, ran, order_contracts, cold_files, hot_ticks>>
    /\ UnchangedTK

-----------------------------------------------------------------------------
(* The clock and the specification *)

Tick ==
    /\ tjob.pc = "idle" /\ kjob.pc = "idle" /\ fjob.pc = "idle"
    /\ nticks < MaxTicks
    /\ \E d \in TickSteps : now' = now + d
    /\ nticks' = nticks + 1
    /\ ran' = [j \in Jobs |-> FALSE]
    /\ UnchangedTK
    /\ UnchangedFlow

\* no single operation is under way
NoUnit == [pc |-> "none"]

Init ==
    /\ now \in StartTimes
    /\ nticks = 0
    /\ ran = [j \in Jobs |-> FALSE]
    /\ fetch_state = [a \in Areas |-> NoFetchRow]
    /\ trades = {}
    /\ tjob = TIdle
    /\ kline_state = [a \in Areas |-> NoTime]
    /\ candles = {}
    /\ kjob = KIdle
    /\ agg = [r \in Legs |-> 0]
    /\ klast = NoKlast
    /\ of_state = [a \in Areas |-> NoSyncRow]
    /\ order_contracts = [k \in ContractIds \X Areas |-> "absent"]
    /\ cold_files = {}
    /\ hot_ticks = {}
    /\ fjob = FIdle
    /\ unit = NoUnit

Next ==
    \/ Tick
    \/ TradeJobStart
    \/ SyncAreaBegin
    \/ BackfillChunk
    \/ ActiveChunk
    \/ SyncAreaFinal
    \/ KlineJobStart
    \/ KlineArea
    \/ KlineChunk
    \/ FlowJobStart
    \/ HistBegin
    \/ HistList
    \/ Worker
    \/ HistCheck
    \/ RtBegin
    \/ RtSlice

Spec == Init /\ [][Next]_vars

\* the thread of a started ingestion run keeps running: every HTTP call
\* returns or fails within its timeout, and so does every database call
TradeRun == SyncAreaBegin \/ BackfillChunk \/ ActiveChunk \/ SyncAreaFinal

FlowRun == HistBegin \/ HistList \/ Worker \/ HistCheck \/ RtBegin \/ RtSlice

\* a process started on an empty database, also at an instant that leaves
\* a backfill of more than two 12 h chunks
InitRuns ==
    /\ now \in StartTimes \cup {DAY + 27 * HOUR + 30}
    /\ nticks = 0
    /\ ran = [j \in Jobs |-> FALSE]
    /\ fetch_state = [a \in Areas |-> NoFetchRow]
    /\ trades = {}
    /\ tjob = TIdle
    /\ kline_state = [a \in Areas |-> NoTime]
    /\ candles = {}
    /\ kjob = KIdle
    /\ agg = [r \in Legs |-> 0]
    /\ klast = NoKlast
    /\ of_state = [a \in Areas |-> NoSyncRow]
    /\ order_contracts = [k \in ContractIds \X Areas |-> "absent"]
    /\ cold_files = {}
    /\ hot_ticks = {}
    /\ fjob = FIdle
    /\ unit = NoUnit

\* the job executions of one trigger time, without the clock
NextRuns ==
    \/ TradeJobStart \/ TradeRun
    \/ KlineJobStart \/ KlineArea \/ KlineChunk
    \/ FlowJobStart \/ FlowRun

SpecFair == InitRuns /\ [][NextRuns]_vars /\ WF_vars(TradeRun) /\ WF_vars(FlowRun)

-----------------------------------------------------------------------------
(* The storage tail of an archival worker on its own: the order_contracts  *)
(* table holds any mix of listed and unlisted contracts, and a worker of   *)
(* one area stores the ticks of one pending contract and marks it.         *)

InitMark ==
    /\ now = 286 * DAY
    /\ nticks = 0
    /\ ran = [j \in Jobs |-> FALSE]
    /\ fetch_state = [a \in Areas |-> NoFetchRow]
    /\ trades = {}
    /\ tjob = TIdle
    /\ kline_state = [a \in Areas |-> NoTime]
    /\ candles = {}
    /\ kjob = KIdle
    /\ agg = [r \in Legs |-> 0]
    /\ klast = NoKlast
    /\ of_state = [a \in Areas |-> NoSyncRow]
    /\ order_contracts \in [ContractIds \X Areas -> {"absent", "pending"}]
    /\ cold_files = {}
    /\ hot_ticks = {}
    /\ fjob = FIdle
    /\ unit = NoUnit

\* _process_single_contract from "if ticks:" on, with a non-empty tick list
ArchiveStore ==
    /\ \E c \in ContractIds, i \in 1..Len(AUTO_AREAS), is_cold \in BOOLEAN :
         LET a == AUTO_AREAS[i]
         IN  /\ order_contracts[<<c, a>>] = "pending"
             /\ cold_files' = IF is_cold
                              THEN cold_files \cup {<<a, ContractDay(c), c>>}
                              ELSE cold_files
             /\ hot_ticks' = IF is_cold THEN hot_ticks ELSE hot_ticks \cup {<<a, c>>}
             /\ order_contracts' = mark_contract_archived(order_contracts, c)
             /\ fjob' = [FIdle EXCEPT !.pc = "marked", !.i = i, !.pending = {c}]
    /\ UNCHANGED <<now, nticks, ran, of_state>>
    /\ UnchangedTK

NextMark == ArchiveStore

SpecMark == InitMark /\ [][NextMark]_vars

-----------------------------------------------------------------------------
(* Single operations.  Every variable but unit keeps the value of an empty *)
(* database.                                                               *)

RestInit ==
    /\ now = 286 * DAY
    /\ nticks = 0
    /\ ran = [j \in Jobs |-> FALSE]
    /\ fetch_state = [a \in Areas |-> NoFetchRow]
    /\ trades = {}
    /\ tjob = TIdle
    /\ kline_state = [a \in Areas |-> NoTime]
    /\ candles = {}
    /\ kjob = KIdle
    /\ agg = [r \in Legs |-> 0]
    /\ klast = NoKlast
    /\ of_state = [a \in Areas |-> NoSyncRow]
    /\ order_contracts = [k \in ContractIds \X Areas |-> "absent"]
    /\ cold_files = {}
    /\ hot_ticks = {}
    /\ fjob = FIdle

RestUnchanged ==
    UNCHANGED <<now, nticks, ran, fetch_state, trades, tjob, kline_state, candles,
                kjob, agg, klast, of_state, order_contracts, cold_files, hot_ticks,
                fjob>>

-----------------------------------------------------------------------------
(* The realtime revision stream over two windows: sync_realtime's loop     *)
(* body, process_api_response and save_ticks                               *)

\* the columns of the mapped class OrderFlowTick
OrderFlowTickColumns ==
    {"tick_id", "contract_id", "delivery_area", "revision_number", "is_snapshot",
     "order_id", "side", "price", "volume", "updated_time", "priority_time",
     "is_deleted", "root_updated_at", "created_at"}

\* the keyword arguments process_api_response passes to OrderFlowTick(...)
ApiResponseKwargs ==
    {"contract_id", "delivery_area", "timestamp", "priority_time", "order_id",
     "revision_number", "price", "volume", "side", "state", "action",
     "is_snapshot", "is_deleted", "source_type"}

\* the declarative constructor raises TypeError on a keyword that is no
\* attribute of the class
ctor_raises(kwargs) == ~(kwargs \subseteq OrderFlowTickColumns)

\* the upstream order revisions: r0 carries no updatedTime
RevIds == {"r0", "r1", "r2", "r3"}
RevTime(r) ==
    CASE r = "r0" -> 5 [] r = "r1" -> 10 [] r = "r2" -> 20 [] r = "r3" -> 30
RevHasTime(r) == r # "r0"

\* the windows [from, to] a run can ask for
WindowEdges == {0, 15, 25, 40, 50}
Windows == {w \in WindowEdges \X WindowEdges : w[1] < w[2]}

\* GET OrderRevisions/ByUpdatedTime?updatedTimeFrom&updatedTimeTo
WindowRevs(w) == {r \in RevIds : w[1] <= RevTime(r) /\ RevTime(r) <= w[2]}

\* process_api_response: a revision without updatedTime is skipped, every
\* other one is built with OrderFlowTick(...); no tick_id is passed
process_api_response(revs) ==
    LET usable == {r \in revs : RevHasTime(r)}
    IN  IF usable # {} /\ ctor_raises(ApiResponseKwargs)
        THEN [raised |-> TRUE, ticks |-> {}]
        ELSE [raised |-> FALSE,
              ticks  |-> {[tick_id |-> "None", rev |-> r] : r \in usable}]

\* save_ticks: INSERT ... ON CONFLICT (tick_id) DO NOTHING; a NULL primary
\* key fails the statement, which is rolled back and raised again
save_ticks(tbl, ticks) ==
    IF ticks = {} THEN [raised |-> FALSE, tbl |-> tbl]
    ELSE IF \E t \in ticks : t.tick_id = "None"
         THEN [raised |-> TRUE, tbl |-> tbl]
         ELSE [raised |-> FALSE,
               tbl |-> tbl \cup {t \in ticks :
                                   ~ \E u \in tbl : u.tick_id = t.tick_id}]

\* the body of sync_realtime's loop on one response
ingest_window(tbl, w) ==
    LET p == process_api_response(WindowRevs(w))
    IN  IF p.raised THEN [raised |-> TRUE, tbl |-> tbl]
        ELSE save_ticks(tbl, p.ticks)

InitStream ==
    /\ RestInit
    /\ \E w1 \in Windows, w2 \in Windows :
         unit = [pc |-> "first", w1 |-> w1, w2 |-> w2, table |-> {},
                 raised |-> FALSE]

IngestFirst ==
    /\ unit.pc = "first"
    /\ LET r == ingest_window(unit.table, unit.w1)
       IN  unit' = [unit EXCEPT !.pc = "second", !.table = r.tbl,
                                !.raised = r.raised]
    /\ RestUnchanged

IngestSecond ==
    /\ unit.pc = "second"
    /\ LET r == ingest_window(unit.table, unit.w2)
       IN  unit' = [unit EXCEPT !.pc = "done", !.table = r.tbl,
                                !.raised = unit.raised \/ r.raised]
    /\ RestUnchanged

NextStream == IngestFirst \/ IngestSecond

SpecStream == InitStream /\ [][NextStream]_vars

-----------------------------------------------------------------------------
(* save_chunk_to_db on rows with columns: the key (trade_id,               *)
(* delivery_area, trade_side), the columns of the ON CONFLICT set_ clause  *)
(* (upd) and all the other columns (rest)                                  *)

\* number of save_chunk_to_db calls explored
MaxSaves == 2

TradeKeys == {<<"T1", "SE1", "Buy">>, <<"T1", "SE2", "Sell">>}
ColumnValues == {"v1", "v2"}
TradeRecords == [key : TradeKeys, upd : ColumnValues, rest : ColumnValues]

RowKeys(rows) == {r.key : r \in rows}

\* the flattener emits one row per trade leg: no key twice in a batch
TradeBatches ==
    {b \in SUBSET TradeRecords :
        b # {} /\ \A r \in b, q \in b : r.key = q.key => r = q}

\* DO UPDATE SET every column = excluded.column
upsert_trade_rows_all(tbl, batch) ==
    {r \in tbl : r.key \notin RowKeys(batch)} \cup batch

\* INSERT ... ON CONFLICT (trade_id, delivery_area, trade_side) DO UPDATE SET
\* trade_updated_at, trade_state, revision_number, price, volume = excluded.*
upsert_trade_rows(tbl, batch) ==
    {r \in tbl : r.key \notin RowKeys(batch)}
      \cup {[key  |-> q.key,
             upd  |-> q.upd,
             rest |-> IF \E r \in tbl : r.key = q.key
                      THEN (CHOOSE r \in tbl : r.key = q.key).rest
                      ELSE q.rest] : q \in batch}

InitUpsert ==
    /\ RestInit
    /\ unit = [pc |-> "start", n |-> 0, table |-> {}, batch |-> {}]

\* save_chunk_to_db: the statement commits, or it raises and is rolled back
\* and logged
SaveChunk ==
    /\ unit.n < MaxSaves
    /\ \E batch \in TradeBatches, ok \in BOOLEAN :
         unit' = [pc    |-> IF ok THEN "saved" ELSE "failed",
                  n     |-> unit.n + 1,
                  table |-> IF ok THEN upsert_trade_rows(unit.table, batch)
                            ELSE unit.table,
                  batch |-> batch]
    /\ RestUnchanged

NextUpsert == SaveChunk

SpecUpsert == InitUpsert /\ [][NextUpsert]_vars

-----------------------------------------------------------------------------
(* sync_realtime of one area on its own, called up to MaxRuns times at one *)
(* clock value, with fetch_recent_orders inside: the area's sync row is    *)
(* absent or holds a last_realtime_time that an earlier run has written.   *)

MaxRuns == 2

\* how long ago the last successful realtime run ended
LrtAges == {50 * HOUR, 9 * HOUR, 5 * HOUR, 30 * MINUTE}

\* status = Column(String, default="idle")
DefaultStatus == "idle"

RealtimeRows ==
    {NoSyncRow} \cup
    {[exists |-> TRUE, lat |-> OF_INITIAL_START_DATE, lrt |-> 286 * DAY - age] :
        age \in LrtAges}

\* fetch_start = last_time - timedelta(minutes=1)
realtime_fetch_start(row) == row.lrt - RT_OVERLAP_MINUTES * MINUTE

\* the end of a slice without the cut at end_time
slice_end_uncut(current_start, end_time) ==
    current_start + RT_SLICE_HOURS * HOUR

\* current_end = min(current_start + chunk_size, end_time)
slice_end(current_start, end_time) ==
    Min(current_start + RT_SLICE_HOURS * HOUR, end_time)

InitRealtime ==
    /\ RestInit
    /\ \E row \in RealtimeRows :
         unit = [pc |-> "rt_begin", run |-> 0, row |-> row,
                 status |-> IF row.exists THEN DefaultStatus ELSE "none",
                 lrt0 |-> NoTime, start |-> NoTime, end |-> NoTime,
                 cur |-> NoTime, slices |-> <<>>, last |-> "none",
                 failed |-> FALSE, raised |-> FALSE]

\* the head of sync_realtime: the checkpoint, the window, and the call of
\* fetch_recent_orders (current_start = start_time)
RealtimeBegin ==
    /\ unit.pc \in {"rt_begin", "done"}
    /\ unit.run < MaxRuns
    /\ LET row == get_or_create_state(unit.row, now)
           fetch_start == realtime_fetch_start(row)
       IN  unit' = [unit EXCEPT
                       !.pc = "rt_slice", !.run = @ + 1, !.row = row,
                       !.status = IF unit.row.exists THEN @ ELSE DefaultStatus,
                       !.lrt0 = row.lrt, !.start = fetch_start, !.end = now,
                       !.cur = fetch_start, !.slices = <<>>, !.last = "none",
                       !.failed = FALSE, !.raised = FALSE]
    /\ RestUnchanged

\* one iteration of "while current_start < end_time" with the loop body of
\* sync_realtime on the yielded response, or the end of the stream and
\* _update_checkpoint(area, fetch_end)
RealtimeSlice ==
    /\ unit.pc = "rt_slice"
    /\ IF unit.cur < unit.end
       THEN \E payload \in Payloads :
              LET current_end == slice_end(unit.cur, unit.end)
                  sl == Append(unit.slices, [s |-> unit.cur, e |-> current_end])
              IN  IF payload = "http_fail"
                  THEN \* except Exception inside the generator: log, next slice
                       unit' = [unit EXCEPT !.slices = sl, !.last = payload,
                                            !.failed = TRUE, !.cur = current_end]
                  ELSE IF process_api_response_raises(payload)
                  THEN \* except Exception of sync_realtime: log only
                       unit' = [unit EXCEPT !.slices = sl, !.last = payload,
                                            !.raised = TRUE, !.pc = "done"]
                  ELSE unit' = [unit EXCEPT !.slices = sl, !.last = payload,
                                            !.cur = current_end]
       ELSE unit' = [unit EXCEPT !.row = update_checkpoint(@, unit.end),
                                 !.pc = "done"]
    /\ RestUnchanged

NextRealtime == RealtimeBegin \/ RealtimeSlice

SpecRealtime == InitRealtime /\ [][NextRealtime]_vars

-----------------------------------------------------------------------------
(* The order-book replayer, order_flow/replayer.py: one call of            *)
(* get_order_book_at on a tick log, of _apply_tick on a tick, or of        *)
(* _build_book on an order map.  Times are seconds after 09:00:00.         *)

MaxOrders == 2

\* rows of order_flow_ticks of one contract
ReplayTicks ==
    {[order_id |-> "a", side |-> "BUY",  price |-> 100, volume |-> 5,
      updated_time |-> 0, revision_number |-> 1, is_deleted |-> FALSE],
     [order_id |-> "b", side |-> "SELL", price |-> 102, volume |-> 3,
      updated_time |-> 1, revision_number |-> 2, is_deleted |-> FALSE],
     [order_id |-> "a", side |-> "BUY",  price |-> 100, volume |-> 7,
      updated_time |-> 2, revision_number |-> 3, is_deleted |-> FALSE],
     [order_id |-> "b", side |-> "SELL", price |-> 102, volume |-> 3,
      updated_time |-> 3, revision_number |-> 4, is_deleted |-> TRUE],
     [order_id |-> "c", side |-> "BUY",  price |-> 100, volume |-> 5,
      updated_time |-> 0, revision_number |-> 1, is_deleted |-> FALSE]}

TickLogs == SUBSET ReplayTicks

TargetTimes == {0, 2, 4}

\* the values of order_map: id, price, volume, side, priority_time
OrderEntries ==
    [id : {"a", "b", "c"}, price : {100, 102}, volume : {5},
     side : {"Buy", "Sell"}, priority_time : {1, 2}]

\* a dict keyed by order id, in insertion order
OrderMaps ==
    {m \in UNION {[1..n -> OrderEntries] : n \in 0..MaxOrders} :
        \A i, j \in 1..Len(m) : i # j => m[i].id # m[j].id}

\* reading OrderFlowTick.<name> or tick.<name> raises AttributeError unless
\* the class maps the name
attribute_raises(name) == name \notin OrderFlowTickColumns

\* key=lambda x: (-x['price'], x['priority_time'])
bid_key(x) == <<-x.price, x.priority_time>>

\* key=lambda x: (x['price'], x['priority_time'])
ask_key(x) == <<x.price, x.priority_time>>

\* the order of Python tuples of two numbers
tuple_less(k, l) == k[1] < l[1] \/ (k[1] = l[1] /\ k[2] < l[2])

\* list.sort(key=...): keys[i] is the key of es[i]; ascending in the key,
\* equal keys keep their order
list_sort(es, keys) ==
    LET n == Len(es)
        pos(i) == 1 + Cardinality({j \in 1..n :
                          \/ tuple_less(keys[j], keys[i])
                          \/ ~tuple_less(keys[i], keys[j]) /\ j < i})
    IN  [k \in 1..n |-> es[CHOOSE i \in 1..n : pos(i) = k]]

\* _build_book
build_book(order_map) ==
    LET entry(o) == [price |-> o.price, volume |-> o.volume, id |-> o.id,
                     priority_time |-> o.priority_time]
        side_of(sides) ==
            LET sel == SelectSeq(order_map, LAMBDA o : o.side \in sides)
            IN  [i \in 1..Len(sel) |-> entry(sel[i])]
        bids == side_of({"Buy", "BUY"})
        asks == side_of({"Sell", "SELL"})
    IN  [bids |-> list_sort(bids, [i \in 1..Len(bids) |-> bid_key(bids[i])]),
         asks |-> list_sort(asks, [i \in 1..Len(asks) |-> ask_key(asks[i])])]

\* _apply_tick starts with tick.type == 'CANCEL'
apply_tick_raises == attribute_raises("type")

\* the assignments of _apply_tick, which run only if its attribute reads
\* succeed: a deletion or a volume <= 0 removes the order, any other tick
\* sets book[order_id], which keeps the place of a key the dict already has
apply_tick(book, tick) ==
    IF tick.is_deleted \/ tick.volume <= 0
    THEN SelectSeq(book, LAMBDA o : o.id # tick.order_id)
    ELSE LET entry == [id |-> tick.order_id, price |-> tick.price,
                       volume |-> tick.volume, side |-> tick.side,
                       priority_time |-> tick.updated_time]
         IN  IF \E i \in 1..Len(book) : book[i].id = tick.order_id
             THEN [i \in 1..Len(book) |->
                      IF book[i].id = tick.order_id THEN entry ELSE book[i]]
             ELSE Append(book, entry)

\* "for tick in ticks: self._apply_tick(active_orders, tick)" from tick i on
RECURSIVE replay(_, _, _)
replay(ticks, i, book) ==
    IF i > Len(ticks) THEN book
    ELSE replay(ticks, i + 1, apply_tick(book, ticks[i]))

\* get_order_book_at builds its filter from OrderFlowTick.timestamp
get_order_book_at_raises == attribute_raises("timestamp")

NoBook == [bids |-> <<>>, asks |-> <<>>]

InitReplay ==
    /\ RestInit
    /\ \/ \E log \in TickLogs, t \in TargetTimes :
            unit = [pc |-> "call", op |-> "get_order_book_at", log |-> log,
                    target |-> t, order_map |-> <<>>, result |-> "none",
                    book |-> NoBook]
       \/ \E tick \in ReplayTicks :
            unit = [pc |-> "call", op |-> "_apply_tick", log |-> {tick},
                    target |-> tick.updated_time, order_map |-> <<>>,
                    result |-> "none", book |-> NoBook]
       \/ \E m \in OrderMaps :
            unit = [pc |-> "call", op |-> "_build_book", log |-> {},
                    target |-> 0, order_map |-> m, result |-> "none",
                    book |-> NoBook]

\* get_order_book_at(contract_id, target_time)
GetOrderBookAt ==
    /\ unit.pc = "call" /\ unit.op = "get_order_book_at"
    /\ LET ticks == {t \in unit.log : t.updated_time <= unit.target}
       IN  unit' = [unit EXCEPT
                       !.pc = "done",
                       !.result = IF get_order_book_at_raises THEN "AttributeError"
                                  ELSE IF ticks = {} THEN "book"
                                  ELSE IF apply_tick_raises THEN "AttributeError"
                                  ELSE "book"]
    /\ RestUnchanged

\* _apply_tick(book, tick)
ApplyTick ==
    /\ unit.pc = "call" /\ unit.op = "_apply_tick"
    /\ unit' = [unit EXCEPT
                   !.pc = "done",
                   !.result = IF apply_tick_raises THEN "AttributeError"
                              ELSE "none"]
    /\ RestUnchanged

\* _build_book(order_map, timestamp)
BuildBook ==
    /\ unit.pc = "call" /\ unit.op = "_build_book"
    /\ unit' = [unit EXCEPT !.pc = "done", !.result = "book",
                            !.book = build_book(unit.order_map)]
    /\ RestUnchanged

NextReplay == GetOrderBookAt \/ ApplyTick \/ BuildBook

SpecReplay == InitReplay /\ [][NextReplay]_vars

-----------------------------------------------------------------------------
(* The realtime normalizer, order_flow/processor.py: one call of           *)
(* process_recent_orders_response on a response with one order.  Times are *)
(* milliseconds after the order's createdTime.                             *)

\* "last_remaining_vol = None"
NoVol == -1

\* revisions of one order as the upstream sends them
UpstreamRevisions ==
    {[revisionNumber |-> 1, action |-> "UserAdded",        volume |-> 10, updatedTime |-> 0],
     [revisionNumber |-> 2, action |-> "PartialExecution", volume |-> 6,  updatedTime |-> 150],
     [revisionNumber |-> 3, action |-> "PartialExecution", volume |-> 2,  updatedTime |-> 400],
     [revisionNumber |-> 4, action |-> "FullExecution",    volume |-> 0,  updatedTime |-> 500],
     [revisionNumber |-> 5, action |-> "None",             volume |-> 0,  updatedTime |-> 600]}

\* the "revisions" list of an order, in any payload order
RevisionLists ==
    {l \in UNION {[1..n -> UpstreamRevisions] : n \in 0..4} :
        /\ \A i, j \in 1..Len(l) : i # j => l[i] # l[j]
        /\ \A i \in 1..Len(l) : l[i].revisionNumber = 5 => i = 1}

\* _map_action_to_type; "" stands for None
map_action_to_type(action) ==
    IF action \in {"PartialExecution", "FullExecution"} THEN "TRADE"
    ELSE IF action \in {"UserAdded"} THEN "NEW"
    ELSE IF action \in {"UserDeleted", "SystemDeleted", "UserHibernated",
                        "SystemHibernated"} THEN "CANCEL"
    ELSE IF action \in {"UserModified", "SystemModified"} THEN "UPDATE"
    ELSE ""

\* revisions.sort(key=lambda x: x.get("revisionNumber", 0)); the scalar key
\* is paired with a constant
sort_revisions(revisions) ==
    list_sort(revisions,
              [i \in 1..Len(revisions) |-> <<revisions[i].revisionNumber, 0>>])

\* "1. 计算 Delta": the emitted volume of a revision of the given type
calculated_volume(tick_type, last_remaining_vol, current_remaining_vol) ==
    IF tick_type = "NEW" THEN current_remaining_vol
    ELSE IF last_remaining_vol # NoVol
         THEN (IF last_remaining_vol - current_remaining_vol > 0
               THEN last_remaining_vol - current_remaining_vol ELSE 0)
         ELSE 0

\* "2. 推算主动方": delta_sec < 0.2
aggressor_side(tick_type, side, created_dt, updated_dt) ==
    IF tick_type = "TRADE"
    THEN (IF updated_dt - created_dt < 200 THEN side
          ELSE IF side = "BUY" THEN "SELL" ELSE "BUY")
    ELSE "NONE"

\* the keyword arguments process_recent_orders_response passes to
\* OrderFlowTick(...)
RecentOrdersKwargs ==
    {"tick_id", "contract_id", "contract_name", "delivery_area", "delivery_start",
     "delivery_end", "timestamp", "price", "volume", "remaining_volume", "side",
     "type", "raw_action", "aggressor_side", "order_id", "revision_number"}

\* the loop "for rev in revisions" from position i on: the ticks appended,
\* or "TypeError" when a constructor call raises
RECURSIVE walk_revisions(_, _, _, _)
walk_revisions(revisions, i, last_remaining_vol, side) ==
    IF i > Len(revisions) THEN <<>>
    ELSE LET rev == revisions[i]
             tick_type == map_action_to_type(rev.action)
         IN  IF rev.action \in {"None", "Unknown"} \/ tick_type = ""
             THEN walk_revisions(revisions, i + 1, last_remaining_vol, side)
             ELSE IF ctor_raises(RecentOrdersKwargs) THEN "TypeError"
             ELSE LET rest == walk_revisions(revisions, i + 1, rev.volume, side)
                      tick == [revision_number |-> rev.revisionNumber,
                               type |-> tick_type,
                               volume |-> calculated_volume(tick_type,
                                              last_remaining_vol, rev.volume),
                               remaining_volume |-> rev.volume,
                               aggressor_side |-> aggressor_side(tick_type, side,
                                                      0, rev.updatedTime)]
                  IN  IF rest = "TypeError" THEN rest ELSE <<tick>> \o rest

\* process_recent_orders_response on one order
process_recent_orders_response(side, revisions) ==
    walk_revisions(sort_revisions(revisions), 1, NoVol, side)

InitNormalize ==
    /\ RestInit
    /\ \E side \in {"BUY", "SELL"}, l \in RevisionLists :
         unit = [pc |-> "call", side |-> side, revisions |-> l,
                 raised |-> FALSE, ticks |-> <<>>]

ProcessRecentOrders ==
    /\ unit.pc = "call"
    /\ LET res == process_recent_orders_response(unit.side, unit.revisions)
       IN  unit' = [unit EXCEPT !.pc = "done",
                                !.raised = (res = "TypeError"),
                                !.ticks = IF res = "TypeError" THEN <<>> ELSE res]
    /\ RestUnchanged

NextNormalize == ProcessRecentOrders

SpecNormalize == InitNormalize /\ [][NextNormalize]_vars

-----------------------------------------------------------------------------
(* The upstream clients on one GET: the trade client (fetch_api_chunk      *)
(* under its tenacity decorator, inside the try/except PermissionError of  *)
(* sync_area_logic) and the order-flow client (OrderFlowFetcher._request). *)

\* stop_after_attempt(5)
STOP_AFTER_ATTEMPT == 5
\* wait_exponential(multiplier=1, min=2, max=60)
WAIT_MIN == 2
WAIT_MAX == 60

\* what the upstream answers to one GET: a status code, or no answer
Responses == {"200", "401", "500", "timeout"}

\* the answers to a request that carries the given token
ResponsesTo(token) == IF token = "none" THEN Responses \ {"200"} ELSE Responses

\* wait_exponential after the given attempt: multiplier * 2 ** (attempt - 1)
\* between min and max
wait_exponential(attempt_number) ==
    LET exp == 2 ^ (attempt_number - 1)
        capped == IF exp < WAIT_MAX THEN exp ELSE WAIT_MAX
    IN  IF capped > WAIT_MIN THEN capped ELSE WAIT_MIN

\* the except branch that takes a PermissionError on every call
on_permission_error_always(call) == "refresh"

\* a PermissionError of the first fetch_api_chunk call is caught by "except
\* PermissionError"; one raised by the call inside that branch leaves it
on_permission_error(call) == IF call = 1 THEN "refresh" ELSE "raise"

\* retry_if_exception_type(requests.RequestException): raise_for_status and
\* the transport raise it, PermissionError is none
is_request_exception(resp) == resp \in {"500", "timeout"}

InitClient ==
    /\ RestInit
    /\ \/ unit = [client |-> "trade", pc |-> "send", token0 |-> "old",
                  token |-> "old", call |-> 1,
                  attempt |-> 1, sends |-> 0, refreshes |-> 0, refresh_ok |-> FALSE,
                  retries |-> 0, saw401 |-> FALSE, retry401 |-> FALSE,
                  waits |-> <<>>, result |-> "none"]
       \/ \E token \in {"none", "old"} :
            unit = [client |-> "orderflow", pc |-> "send", token0 |-> token,
                    token |-> token, call |-> 1, attempt |-> 1, sends |-> 0, refreshes |-> 0,
                    refresh_ok |-> FALSE, retries |-> 0, saw401 |-> FALSE,
                    retry401 |-> FALSE, waits |-> <<>>, result |-> "none"]

\* one attempt of fetch_api_chunk under @retry
TradeAttempt ==
    /\ unit.client = "trade" /\ unit.pc = "send"
    /\ \E resp \in ResponsesTo(unit.token) :
         LET u == [unit EXCEPT !.sends = @ + 1]
         IN  IF resp = "200"
             THEN unit' = [u EXCEPT !.pc = "done", !.result = "ok"]
             ELSE IF resp = "401"
             THEN IF on_permission_error(unit.call) = "refresh"
                  THEN unit' = [u EXCEPT !.pc = "refresh", !.saw401 = TRUE]
                  ELSE unit' = [u EXCEPT !.pc = "done", !.retry401 = TRUE,
                                         !.result = "PermissionError"]
             ELSE IF is_request_exception(resp) /\ unit.attempt < STOP_AFTER_ATTEMPT
             THEN unit' = [u EXCEPT !.attempt = @ + 1,
                              !.waits = Append(@, wait_exponential(unit.attempt))]
             ELSE unit' = [u EXCEPT !.pc = "done", !.result = "RetryError"]
    /\ RestUnchanged

\* except PermissionError: token = get_token(), then the second call
TradeRefresh ==
    /\ unit.client = "trade" /\ unit.pc = "refresh"
    /\ \E ok \in BOOLEAN :
         IF ok
         THEN unit' = [unit EXCEPT !.pc = "send", !.token = "new", !.call = @ + 1,
                                   !.attempt = 1, !.waits = <<>>,
                                   !.refreshes = @ + 1, !.refresh_ok = TRUE,
                                   !.retries = @ + 1]
         ELSE unit' = [unit EXCEPT !.pc = "done", !.refreshes = @ + 1,
                                   !.result = "TokenError"]
    /\ RestUnchanged

\* the result of raise_for_status / requests.request on an answer
request_result(resp) ==
    IF resp = "200" THEN "ok"
    ELSE IF resp = "timeout" THEN "Timeout"
    ELSE "HTTPError"

\* OrderFlowFetcher._request: _get_headers refreshes when there is no token;
\* _refresh_token keeps the old token when it fails
OrderFlowRequest ==
    /\ unit.client = "orderflow" /\ unit.pc = "send"
    /\ \E r0, r1, r2 \in BOOLEAN :
         LET token1 == IF unit.token = "none" /\ r0 THEN "new" ELSE unit.token
         IN  \E resp1 \in ResponsesTo(token1) :
               IF resp1 # "401"
               THEN unit' = [unit EXCEPT !.pc = "done", !.token = token1,
                                         !.sends = 1,
                                         !.result = request_result(resp1)]
               ELSE LET token2 == IF r1 THEN "new" ELSE token1
                        again == token2 = "none"
                        token3 == IF again /\ r2 THEN "new" ELSE token2
                    IN  \E resp2 \in ResponsesTo(token3) :
                          unit' = [unit EXCEPT
                                      !.pc = "done", !.token = token3,
                                      !.sends = 2, !.saw401 = TRUE,
                                      !.refreshes = IF again THEN 2 ELSE 1,
                                      !.refresh_ok = r1,
                                      !.retries = 1,
                                      !.retry401 = (resp2 = "401"),
                                      !.result = request_result(resp2)]
    /\ RestUnchanged

NextClient == TradeAttempt \/ TradeRefresh \/ OrderFlowRequest

SpecClient == InitClient /\ [][NextClient]_vars

-----------------------------------------------------------------------------
(* The scheduler, scheduler.py start_scheduler: four interval jobs on a    *)
(* BackgroundScheduler with a thread pool.  A trigger that fires submits   *)
(* the job unless max_instances executions of it are under way.            *)

MaxFires == 2

\* the ids of the four add_job calls
JobIds == {"auto_sync_nordpool", "auto_kline_gen", "startup_order_flow_sync",
           "live_trading_job"}

\* a job entry that allows two executions at a time
max_instances_two(job_id) == 2

\* max_instances=1 in every add_job call
max_instances(job_id) == 1

InitScheduler ==
    /\ RestInit
    /\ unit = [pc |-> "running",
               instances |-> [j \in JobIds |-> 0],
               fired |-> [j \in JobIds |-> 0],
               skipped |-> [j \in JobIds |-> 0]]

\* the trigger of a job fires: the executor starts the job function, or the
\* run is skipped because the job's instance limit is reached
TriggerFires ==
    /\ \E j \in JobIds :
         /\ unit.fired[j] < MaxFires
         /\ IF unit.instances[j] < max_instances(j)
            THEN unit' = [unit EXCEPT !.fired[j] = @ + 1, !.instances[j] = @ + 1]
            ELSE unit' = [unit EXCEPT !.fired[j] = @ + 1, !.skipped[j] = @ + 1]
    /\ RestUnchanged

\* a job function returns
JobReturns ==
    /\ \E j \in JobIds :
         /\ unit.instances[j] > 0
         /\ unit' = [unit EXCEPT !.instances[j] = @ - 1]
    /\ RestUnchanged

NextScheduler == TriggerFires \/ JobReturns

SpecScheduler == InitScheduler /\ [][NextScheduler]_vars

-----------------------------------------------------------------------------
(* The worker pool of sync_history_backfill for one area and one day: the  *)
(* pending rows are read once, one task is submitted per row, up to        *)
(* MAX_WORKERS tasks run at a time, and the with-block ends when all have  *)
(* returned.                                                               *)

MAX_WORKERS == 10

\* the pending query without its delivery_area filter
pending_contracts_any_area(tbl, area, day) ==
    {k \in DOMAIN tbl : ContractDay(k[1]) = day /\ tbl[k] = "pending"}

\* db.query(OrderContract).filter(delivery_area == area,
\* delivery_date_utc == curr.date(), is_archived == False).all(): rows of the
\* primary key (contract_id, delivery_area)
pending_contracts(tbl, area, day) ==
    {k \in DOMAIN tbl : /\ k[2] = area
                        /\ ContractDay(k[1]) = day
                        /\ tbl[k] = "pending"}

\* what the worker of a row is called with: area, date_str and the row's
\* contract_id
worker_args(area, day, row) == <<area, day, row[1]>>

\* os.path.join(base_data_dir, area, date_str, f"{contract_id}.parquet")
parquet_path(args) == <<"data/order_flow", args[1], args[2], args[3]>>

InitPool ==
    /\ RestInit
    /\ \E tbl \in [ContractIds \X Areas -> {"absent", "pending", "archived"}],
          a \in Areas :
         LET day == OF_INITIAL_START_DATE + 2 * DAY
         IN  unit = [pc |-> "pool", area |-> a, day |-> day, order_contracts |-> tbl,
                     todo |-> pending_contracts(tbl, a, day),
                     running |-> {}, returned |-> {}]

\* a pool thread takes a submitted task
WorkerStarts ==
    /\ unit.pc = "pool"
    /\ Cardinality(unit.running) < MAX_WORKERS
    /\ \E row \in unit.todo :
         unit' = [unit EXCEPT !.todo = @ \ {row}, !.running = @ \cup {row}]
    /\ RestUnchanged

\* _process_single_contract returns
WorkerReturns ==
    /\ unit.pc = "pool"
    /\ \E row \in unit.running :
         unit' = [unit EXCEPT !.running = @ \ {row}, !.returned = @ \cup {row}]
    /\ RestUnchanged

\* the end of "with ThreadPoolExecutor(...)": every task has returned
PoolExit ==
    /\ unit.pc = "pool"
    /\ unit.todo = {} /\ unit.running = {}
    /\ unit' = [unit EXCEPT !.pc = "check"]
    /\ RestUnchanged

NextPool == WorkerStarts \/ WorkerReturns \/ PoolExit

SpecPool == InitPool /\ [][NextPool]_vars

-----------------------------------------------------------------------------
(* Two sessions that write overlapping tick batches to the hot store: the  *)
(* realtime sync beside the live runner's execution step, or two archival  *)
(* workers of a hot day.  Each session is one iteration of its loop body:  *)
(* normalize the response, then save_ticks.                                *)

\* the revisions of a response, all with an updatedTime
TickBatches == (SUBSET {r \in RevIds : RevHasTime(r)}) \ {{}}

\* process_recent_orders_response(self, data) takes one argument
RecentOrdersParams == 1
\* self.processor.process_recent_orders_response(self.area, raw_data_chunk)
LiveTraderArgs == 2

\* a call with more positional arguments than parameters raises TypeError
call_raises(args, params) == args > params

InitHot ==
    /\ RestInit
    /\ \E kinds \in {<<"realtime", "live">>, <<"archival", "archival">>}, b1 \in TickBatches, b2 \in TickBatches :
         unit = [pc |-> "writing", table |-> {},
                 s |-> [i \in {1, 2} |->
                          [kind |-> kinds[i], batch |-> IF i = 1 THEN b1 ELSE b2,
                           pc |-> "start", raised |-> FALSE]]]

\* the loop body of sync_realtime on one response
RealtimeWrite ==
    /\ \E i \in {1, 2} :
         /\ unit.s[i].kind = "realtime" /\ unit.s[i].pc = "start"
         /\ LET p == process_api_response(unit.s[i].batch)
                r == IF p.raised THEN [raised |-> TRUE, tbl |-> unit.table]
                     ELSE save_ticks(unit.table, p.ticks)
            IN  unit' = [unit EXCEPT !.table = r.tbl, !.s[i].pc = "done",
                                     !.s[i].raised = r.raised]
    /\ RestUnchanged

\* the loop body of _run_execution_step on one response
LiveWrite ==
    /\ \E i \in {1, 2} :
         /\ unit.s[i].kind = "live" /\ unit.s[i].pc = "start"
         /\ IF call_raises(LiveTraderArgs, RecentOrdersParams)
            THEN unit' = [unit EXCEPT !.s[i].pc = "done", !.s[i].raised = TRUE]
            ELSE LET ticks == {[tick_id |-> r, rev |-> r] : r \in unit.s[i].batch}
                     r == IF ctor_raises(RecentOrdersKwargs)
                          THEN [raised |-> TRUE, tbl |-> unit.table]
                          ELSE save_ticks(unit.table, ticks)
                 IN  unit' = [unit EXCEPT !.table = r.tbl, !.s[i].pc = "done",
                                          !.s[i].raised = r.raised]
    /\ RestUnchanged

\* _process_single_contract of a hot day on a response with order rows
ArchivalWrite ==
    /\ \E i \in {1, 2} :
         /\ unit.s[i].kind = "archival" /\ unit.s[i].pc = "start"
         /\ LET w == process_single_contract("rows")
            IN  unit' = [unit EXCEPT
                   !.table = IF w.stored
                             THEN @ \cup {[tick_id |-> r, rev |-> r] :
                                            r \in unit.s[i].batch}
                             ELSE @,
                   !.s[i].pc = "done",
                   !.s[i].raised = ~w.stored]
    /\ RestUnchanged

NextHot == RealtimeWrite \/ LiveWrite \/ ArchivalWrite

SpecHot == InitHot /\ [][NextHot]_vars

-----------------------------------------------------------------------------
(* The trade flattener on one response: fetcher.py flatten_and_parse, with  *)
(* the rows kept as the list the function returns.  A response is a list of *)
(* contracts, a contract a list of trades, a trade the list of its legs; a  *)
(* trade is identified by its position <<contract, trade>>.                 *)

\* a flattener that keeps only the legs of the requested area
flatten_trade_area_only(tid, legs, area) ==
    LET keep == SelectSeq(legs, LAMBDA leg : leg.deliveryArea = area)
    IN  [j \in 1..Len(keep) |->
            [tradeId |-> tid, deliveryArea |-> keep[j].deliveryArea,
             tradeSide |-> keep[j].tradeSide]]

\* the body of "for trade in trades": one row per leg, and one 'Unknown' row
\* of the requested area when "trade.get('legs') or []" is empty
flatten_trade(tid, legs, area) ==
    IF legs = <<>>
    THEN <<[tradeId |-> tid, deliveryArea |-> area, tradeSide |-> "Unknown"]>>
    ELSE [j \in 1..Len(legs) |->
            [tradeId |-> tid, deliveryArea |-> legs[j].deliveryArea,
             tradeSide |-> legs[j].tradeSide]]

\* the two nested loops, from contract ci and trade ti on
RECURSIVE flatten_and_parse_rows(_, _, _, _)
flatten_and_parse_rows(contracts, area, ci, ti) ==
    IF ci > Len(contracts) THEN <<>>
    ELSE IF ti > Len(contracts[ci])
    THEN flatten_and_parse_rows(contracts, area, ci + 1, 1)
    ELSE flatten_trade(<<ci, ti>>, contracts[ci][ti], area)
           \o flatten_and_parse_rows(contracts, area, ci, ti + 1)

InitFlatten ==
    /\ RestInit
    /\ LET leg(a, s) == [deliveryArea |-> a, tradeSide |-> s]
           LegLists == {<<>>, <<leg("SE3", "BUY"), leg("DK1", "SELL")>>,
                        <<leg("DK1", "SELL"), leg("SE3", "BUY")>>,
                        <<leg("SE3", "BUY")>>,
                        <<leg("SE3", "BUY"), leg("SE3", "SELL")>>}
           Contracts == UNION {[1..n -> LegLists] : n \in 0..2}
       IN  \E area \in {"SE3", "DK1"},
              raw_data \in UNION {[1..n -> Contracts] : n \in 0..2} :
              unit = [pc |-> "call", area |-> area, raw_data |-> raw_data]

FlattenAndParse ==
    /\ unit.pc = "call"
    /\ unit' = [unit EXCEPT !.pc = "done"]
                 @@ [rows |-> flatten_and_parse_rows(unit.raw_data, unit.area, 1, 1)]
    /\ RestUnchanged

NextFlatten == FlattenAndParse

SpecFlatten == InitFlatten /\ [][NextFlatten]_vars

-----------------------------------------------------------------------------
(* The classification of one flattened row in save_chunk_to_db.  Times and  *)
(* durations are whole seconds; duration_minutes is kept in seconds, so the *)
(* tolerance "abs(duration - 60) < 1" reads "within 60 seconds of 3600".    *)

\* parse_ts gives None for a missing or unparsable string; with both ends
\* parsed the duration is classified, else duration = 0.0, c_type = 'Unknown'
duration_and_type(dt_start, dt_end) ==
    IF dt_start # PyNone /\ dt_end # PyNone
    THEN LET duration == dt_end - dt_start
             abs(x) == IF x < 0 THEN 0 - x ELSE x
         IN  [duration |-> duration,
              c_type |-> IF abs(duration - 60 * MINUTE) < MINUTE THEN "PH"
                         ELSE IF abs(duration - 15 * MINUTE) < MINUTE THEN "QH"
                         ELSE "Other"]
    ELSE [duration |-> 0, c_type |-> "Unknown"]

\* deliveryStart and deliveryEnd of the row: absent, or a time on a 12 second
\* grid that holds 14.2, 15.8, 45.0, 59.2 and 60.8 minutes and the edges
InitClassify ==
    /\ RestInit
    /\ \E dt_start \in {PyNone, 0, 10 * MINUTE},
          dt_end \in {PyNone} \cup {12 * k : k \in 0..310} :
          unit = [pc |-> "row", dt_start |-> dt_start, dt_end |-> dt_end]

BuildRecord ==
    /\ unit.pc = "row"
    /\ unit' = [unit EXCEPT !.pc = "record"]
                 @@ [db_record |-> duration_and_type(unit.dt_start, unit.dt_end)]
    /\ RestUnchanged

NextClassify == BuildRecord

SpecClassify == InitClassify /\ [][NextClassify]_vars

-----------------------------------------------------------------------------
(* The trade engine, the legacy adapter and the live runner:                *)
(* strategy/engine.py, adapter.py, base.py, strategies.py, live_trader.py.  *)
(* Money is counted in 1/10000 EUR, volume in whole MW, prices in whole EUR *)
(* that are multiples of 10, so every Decimal of a run is exact.  An        *)
(* optional Decimal is <<>> for None and <<d>> for the value d.             *)

MaxLiveSteps == 3

\* self.cash = Decimal("40000.0"), in 1/10000 EUR
ENGINE_INITIAL_CASH == 400000000
\* self.fee_rate_per_mwh = Decimal("0.23"), duration_hours 1.0, in 1/10000 EUR
FEE_PER_MW == 2300
\* max_pos = 5.0
MAX_POS == 5
\* "sell": RSI_14 > 70
SELL_RSI == 70

\* TradeEngine.__init__; created counts the Order objects made so far and
\* stands for the fresh uuid4 each of them gets
NewEngine ==
    [cash |-> ENGINE_INITIAL_CASH, position |-> 0, orders |-> <<>>,
     slippage |-> 0, fees |-> 0, created |-> 0]

\* Order.to_dict: str(Decimal) is written [str |-> d]; "str(self.limit_price)
\* if self.limit_price else None" tests the truth of the Decimal
to_dict(o) ==
    [id |-> o.id, target_pos |-> [str |-> o.target_pos], type |-> o.type,
     limit_price |-> IF o.limit_price # <<>> /\ o.limit_price[1] # 0
                     THEN <<[str |-> o.limit_price[1]]>> ELSE <<>>,
     ttl |-> o.ttl, reason |-> o.reason, status |-> o.status,
     filled_vol |-> [str |-> o.filled_vol]]

\* Order.from_dict: the constructor cleans target_pos and a limit_price that
\* is not None, then id, status and filled_vol are taken from the dict
from_dict(d) ==
    [id |-> d.id, target_pos |-> d.target_pos.str, type |-> d.type,
     limit_price |-> IF d.limit_price # <<>> THEN <<d.limit_price[1].str>> ELSE <<>>,
     ttl |-> d.ttl, reason |-> d.reason, status |-> d.status,
     filled_vol |-> d.filled_vol.str]

\* TradeEngine.get_state
get_state(e) ==
    [cash |-> [str |-> e.cash], position |-> [str |-> e.position],
     orders |-> [i \in 1..Len(e.orders) |-> to_dict(e.orders[i])],
     stats |-> [slippage |-> [str |-> e.slippage], fees |-> [str |-> e.fees]]]

\* TradeEngine.restore_state on a state dict
restore_state(e, state) ==
    [e EXCEPT !.cash = state.cash.str, !.position = state.position.str,
              !.orders = [i \in 1..Len(state.orders) |-> from_dict(state.orders[i])],
              !.slippage = state.stats.slippage.str,
              !.fees = state.stats.fees.str]

\* TradeEngine.place_order: ignored when an order of the same target and
\* type is active, else a PENDING order is appended
place_order(e, target_pos, type, limit_price) ==
    IF \E i \in 1..Len(e.orders) :
          e.orders[i].target_pos = target_pos /\ e.orders[i].type = type
    THEN e
    ELSE [e EXCEPT !.created = @ + 1,
                   !.orders = Append(@, [id |-> e.created + 1,
                                         target_pos |-> target_pos, type |-> type,
                                         limit_price |-> limit_price, ttl |-> 60,
                                         reason |-> "", status |-> "PENDING",
                                         filled_vol |-> 0])]

\* TradeEngine._execute_trade with enable_slippage: val = vol * price,
\* fee = vol * 1.0 * 0.23, slip = val * 0.0002 * (1 + vol / 10 * 0.5)
execute_trade(e, vol, price, is_buy) ==
    LET val == vol * price * 10000
        fee == vol * FEE_PER_MW
        slip == (vol * price * (20 + vol)) \div 10
    IN  [e EXCEPT !.cash = (IF is_buy THEN @ - val ELSE @ + val) - fee - slip,
                  !.position = IF is_buy THEN @ + vol ELSE @ - vol,
                  !.fees = @ + fee, !.slippage = @ + slip]

\* TradeEngine._match_candle from order i on: the result is the engine and
\* whether a TypeError was raised; "low_p <= limit" and "high_p >= limit"
\* raise it when the limit is None, and self.active_orders is assigned only
\* after the loop
RECURSIVE match_orders(_, _, _, _, _)
match_orders(e, i, available, remaining, candle) ==
    IF i > Len(e.orders) THEN [e |-> [e EXCEPT !.orders = remaining], raised |-> FALSE]
    ELSE
    LET order == e.orders[i]
        is_buy == order.target_pos > e.position
    IN  IF available <= 0
        THEN match_orders(e, i + 1, available, Append(remaining, order), candle)
        ELSE IF order.type = "LIMIT" /\ order.limit_price = <<>>
        THEN [e |-> e, raised |-> TRUE]
        ELSE
        LET limit == order.limit_price[1]
            exec_price ==
                IF order.type = "MARKET" THEN <<candle.open>>
                ELSE IF order.type = "LIMIT" /\ is_buy /\ candle.low <= limit
                THEN <<IF candle.open < limit THEN candle.open ELSE limit>>
                ELSE IF order.type = "LIMIT" /\ ~is_buy /\ candle.high >= limit
                THEN <<IF candle.open > limit THEN candle.open ELSE limit>>
                ELSE <<>>
        IN  IF exec_price # <<>> /\ exec_price[1] # 0
            THEN LET needed == IF is_buy THEN order.target_pos - e.position
                               ELSE e.position - order.target_pos
                     trade_vol == IF needed < available THEN needed ELSE available
                     e2 == execute_trade(e, trade_vol, exec_price[1], is_buy)
                 IN  match_orders(e2, i + 1, available - trade_vol,
                                  IF order.target_pos # e2.position
                                  THEN Append(remaining, order) ELSE remaining,
                                  candle)
            ELSE match_orders(e, i + 1, available, Append(remaining, order), candle)

\* Strategy.set_target_position(self, target_vol): any other keyword is a
\* TypeError
set_target_position_raises(kwargs) == ~(kwargs \subseteq {"target_vol"})

\* LegacyStrategyAdapter.on_candle and DynamicConfigStrategy.next with the
\* rules buy RSI_14 < buy_val, sell RSI_14 > 70: entry_price stays 0.0 and
\* both percentages are 0.0, so the risk check never acts; a signal calls
\* set_target_position(target, reason=...), which reaches the engine through
\* the adapter's execute_order as a MARKET order
legacy_next(e, candle, buy_val) ==
    LET target == IF candle.rsi < buy_val /\ e.position < MAX_POS THEN <<MAX_POS>>
                  ELSE IF ~(candle.rsi < buy_val) /\ candle.rsi > SELL_RSI
                          /\ e.position > 0 - MAX_POS
                  THEN <<0 - MAX_POS>> ELSE <<>>
    IN  IF target = <<>> THEN [e |-> e, raised |-> FALSE]
        ELSE IF set_target_position_raises({"reason"})
        THEN [e |-> e, raised |-> TRUE]
        ELSE [e |-> place_order(e, target[1], "MARKET", <<>>), raised |-> FALSE]

\* TradeEngine.update_candle in PAPER mode without a contract close time:
\* match, then the strategy callback
update_candle(e, candle, buy_val) ==
    LET m == IF e.orders = <<>> \/ candle.volume <= 0
             THEN [e |-> e, raised |-> FALSE]
             ELSE match_orders(e, 1, candle.volume, <<>>, candle)
    IN  IF m.raised THEN m ELSE legacy_next(m.e, candle, buy_val)

\* the engine of a new process, no state file yet; buy_val is 30 in
\* test_compatibility.py and 50 in LiveTrader.__init__
InitLive ==
    /\ RestInit
    /\ \E buy_val \in {30, 50} :
         unit = [pc |-> "ready", engine |-> NewEngine, file |-> <<>>,
                 buy_val |-> buy_val, steps |-> 0, last |-> [op |-> "init"]]

\* LiveTrader.__init__ after a restart: a new engine, then _load_state
LoadState ==
    /\ unit.pc = "ready" /\ unit.steps < MaxLiveSteps
    /\ unit' = [unit EXCEPT
                  !.engine = IF unit.file = <<>> THEN NewEngine
                             ELSE restore_state(NewEngine, unit.file[1]),
                  !.steps = @ + 1, !.last = [op |-> "load"]]
    /\ RestUnchanged

\* engine.place_order(target_pos, type, limit_price)
PlaceOrder ==
    /\ unit.pc = "ready" /\ unit.steps < MaxLiveSteps
    /\ \E target_pos \in {0 - MAX_POS, MAX_POS}, type \in {"MARKET", "LIMIT"},
          limit_price \in {<<>>, <<0>>, <<50>>} :
         /\ type = "MARKET" <=> limit_price = <<>>
         /\ unit' = [unit EXCEPT
                       !.engine = place_order(unit.engine, target_pos, type, limit_price),
                       !.steps = @ + 1, !.last = [op |-> "place"]]
    /\ RestUnchanged

\* engine.update_candle(candle, adapter), as the loop of test_compatibility
\* and _run_strategy_step call it
UpdateCandle ==
    /\ unit.pc = "ready" /\ unit.steps < MaxLiveSteps
    /\ \E rsi \in {20, 40, 60, 80}, volume \in {0, 3, 10} :
         LET candle == [open |-> 50, high |-> 60, low |-> 40, close |-> 50,
                        volume |-> volume, rsi |-> rsi]
             r == update_candle(unit.engine, candle, unit.buy_val)
         IN  unit' = [unit EXCEPT
                        !.engine = r.e, !.steps = @ + 1,
                        !.last = [op |-> "candle", rsi |-> rsi,
                                  raised |-> r.raised]]
    /\ RestUnchanged

\* LiveTrader.run_tick: the strategy step on the provider's latest candle
\* (none when the frame is empty), the execution step on the one slice of
\* the last hour, _save_state; any exception ends the tick before the later
\* steps
RunTick ==
    /\ unit.pc = "ready" /\ unit.steps < MaxLiveSteps
    /\ \E df \in {"empty", "raises", "candle"}, rsi \in {20, 40, 60, 80},
          volume \in {0, 10}, resp \in {"ok", "fail"} :
         LET candle == [open |-> 50, high |-> 60, low |-> 40, close |-> 50,
                        volume |-> volume, rsi |-> rsi]
             s == IF df = "empty" THEN [e |-> unit.engine, raised |-> FALSE]
                  ELSE IF df = "raises" THEN [e |-> unit.engine, raised |-> TRUE]
                  ELSE update_candle(unit.engine, candle, unit.buy_val)
             x == ~s.raised /\ resp = "ok"
                    /\ call_raises(LiveTraderArgs, RecentOrdersParams)
             saved == ~s.raised /\ ~x
         IN  unit' = [unit EXCEPT
                        !.engine = s.e,
                        !.file = IF saved THEN <<get_state(s.e)>> ELSE @,
                        !.steps = @ + 1,
                        !.last = [op |-> "tick", strategy |-> ~s.raised,
                                  execution |-> ~s.raised /\ ~x, saved |-> saved]]
    /\ RestUnchanged

NextLive == LoadState \/ PlaceOrder \/ UpdateCandle \/ RunTick

SpecLive == InitLive /\ [][NextLive]_vars

-----------------------------------------------------------------------------
(* Properties *)

\* C1: no step of the active-window phase of sync_area_logic (the chunks
\* from safe_line to now + 48h, failed or not, and the final status write)
\* changes last_fetched_time of any area.
C1_ActiveWindowKeepsCheckpoint ==
    [][tjob.pc \in {"active", "final"} =>
          \A a \in Areas : fetch_state'[a].lft = fetch_state[a].lft]_vars

\* an active-window run that stored a trade of a future delivery hour and
\* ended with the checkpoint on the safe line
C1_Witness ==
    /\ tjob.pc = "final"
    /\ tjob.curr = future_limit(tjob.now)
    /\ <<"T2", TArea>> \in trades
    /\ fetch_state[TArea].lft = safe_archive_line(tjob.now)

\* C2: no step lowers last_fetched_time, last_generated_time,
\* last_archived_time or last_realtime_time of an area (a missing value
\* counts as the smallest), and the value the candle pipeline writes is
\* later than the one it read.
C2_CheckpointsMonotone ==
    [][/\ \A a \in Areas :
            /\ fetch_state'[a].lft >= fetch_state[a].lft
            /\ kline_state'[a] >= kline_state[a]
            /\ of_state'[a].lat >= of_state[a].lat
            /\ of_state'[a].lrt >= of_state[a].lrt
       /\ klast'.wrote # NoTime => klast'.wrote > klast'.read]_vars

\* the candle pipeline wrote a progress value up to the trade checkpoint it
\* read, and a later run of the trade ingester moved that checkpoint on
C2_Witness ==
    /\ nticks = 1
    /\ klast.wrote # NoTime
    /\ klast.fl # NoTime
    /\ klast.area \in Areas
    /\ fetch_state[klast.area].lft = safe_archive_line(now)
    /\ fetch_state[klast.area].lft > klast.fl
    /\ fetch_state[klast.area].status = "ok"

\* C3: for an area without last_fetched_time, or with
\* last_generated_time + 1 min >= min(now, last_fetched_time), the candle
\* pipeline changes neither the candles nor last_generated_time and starts
\* no chunk; every chunk it aggregates and every progress value it writes
\* ends at or before the last_fetched_time of the area.
C3_CandleGate ==
    [][/\ (/\ kjob.pc = "area"
           /\ \/ get_fetch_progress(KArea) = NoTime
              \/ get_kline_progress(KArea) + MINUTE
                   >= Min(kjob.now, get_fetch_progress(KArea))) =>
             /\ candles' = candles
             /\ kline_state' = kline_state
             /\ kjob'.pc # "chunk"
       /\ kjob.pc = "chunk" =>
             /\ klast'.e <= get_fetch_progress(KArea)
             /\ klast'.e <= kjob.now
             /\ klast'.wrote <= get_fetch_progress(KArea)
             /\ \A a \in Areas : kline_state'[a] # kline_state[a] =>
                                    kline_state'[a] <= get_fetch_progress(a)]_vars

\* the gate was open and a chunk was aggregated up to a trade checkpoint
\* that lies before the clock
C3_Witness ==
    /\ klast.open
    /\ klast.e = klast.fl
    /\ klast.fl < now
    /\ candles # {}

\* C4: no step stores a trade row whose minute an aggregation chunk of its
\* area has already covered.
C4_MinuteCompleteBeforeCandle ==
    [][\A r \in Legs : (r \notin trades /\ r \in trades') => agg[r] = 0]_vars

\* C5: when the candle pipeline has finished an area whose gate was open,
\* last_generated_time of the area equals safe_end.
C5_AdvancesToSafeEnd ==
    (klast.over /\ klast.open) => kline_state[klast.area] = klast.safe_end

\* C6: between runs, every trade minute from the cold start up to the
\* candle progress of its area has been inside exactly one aggregation
\* chunk.
C6_EveryMinuteOnce ==
    kjob.pc = "idle" =>
        \A r \in Legs :
            LET m == FloorMinute(UpstreamTrade(r[1]).tt)
            IN  (KLINE_DEFAULT_PROGRESS + MINUTE <= m /\ m <= get_kline_progress(r[2]))
                    => agg[r] = 1

\* C7: last_archived_time of an existing row changes only in a day step of
\* its area that leaves no unarchived contract of that day; a pool that
\* leaves one, or a contract list that cannot be fetched, ends the archival
\* of the run with last_archived_time unchanged.
C7_PointerWaitsForDay ==
    [][/\ \A a \in Areas :
            (of_state[a].exists /\ of_state'[a].lat # of_state[a].lat) =>
                /\ fjob.pc \in {"hist_list", "pool"}
                /\ a = FArea
                /\ fjob.curr = FloorDay(of_state[a].lat)
                /\ unarchived(order_contracts', a, fjob.curr) = {}
                /\ fjob'.list_ok
       /\ (/\ fjob.pc = "pool" /\ fjob'.pc # "pool"
           /\ unarchived(order_contracts, FArea, fjob.curr) # {}) =>
                /\ of_state' = of_state
                /\ fjob'.pc = "rt_begin"
       /\ (fjob.pc = "hist_list" /\ ~fjob'.list_ok) =>
                /\ of_state' = of_state
                /\ fjob'.pc = "rt_begin"]_vars

\* the pool of a day ended with contracts still unarchived and the pointer
\* still on that day
C7_Witness ==
    /\ fjob.pc = "rt_begin"
    /\ fjob.pending # {}
    /\ unarchived(order_contracts, FArea, fjob.curr) # {}
    /\ of_state[FArea].lat = fjob.curr

\* C8 as stated: at the end of the archival of a run that completed its
\* first day, last_archived_time is one day after its value before the run.
C8_OneDayPerRun ==
    (fjob.pc = "rt_begin" /\ fjob.days >= 1) =>
        of_state[FArea].lat = fjob.lat0 + DAY

\* C8 amended: every change of last_archived_time of an existing row moves
\* it to midnight of the day it was on plus exactly one day; one run may
\* make several such changes.
C8_OneDayPerStep ==
    [][\A a \in Areas :
          (of_state[a].exists /\ of_state'[a].lat # of_state[a].lat) =>
              of_state'[a].lat = FloorDay(of_state[a].lat) + DAY]_vars

\* one run completed two days
C8_Witness ==
    /\ fjob.pc = "rt_begin"
    /\ fjob.days = 2
    /\ of_state[FArea].lat = fjob.lat0 + 2 * DAY

\* C9: after a pool in which the revisions request of some contract raised,
\* the contracts whose request was answered are archived and the others
\* are not.
C9_WorkerIsolation ==
    (/\ fjob.pc = "rt_begin"
     /\ \E c \in fjob.pending : fjob.res[c] = "http_fail") =>
        \A c \in fjob.pending :
            order_contracts[<<c, FArea>>] =
                (IF fjob.res[c] = "http_fail" THEN "pending" ELSE "archived")

C11_UnionNotSum ==
    unit.pc = "done" =>
        Cardinality(unit.table)
            = Cardinality({r \in WindowRevs(unit.w1) \cup WindowRevs(unit.w2) :
                             RevHasTime(r)})

C13_BackfillFailureStops ==
    [][\A a \in Areas :
          /\ (fetch_state'[a].status = "error" /\ fetch_state'[a] # fetch_state[a]) =>
                /\ tjob.pc = "backfill" /\ TArea = a
                /\ fetch_state'[a].err # NoErr
                /\ fetch_state'[a].err <= ERR_MAX
                /\ fetch_state'[a].lft = fetch_state[a].lft
                /\ trades' = trades
                /\ tjob' = TNextArea
          /\ (fetch_state[a].status = "error"
                /\ fetch_state'[a].lft # fetch_state[a].lft) =>
                /\ tjob.pc = "backfill" /\ TArea = a
                /\ tjob.curr = archived_time(fetch_state[a])]_vars

\* the second chunk of a backfill failed: the checkpoint is the end of the
\* first chunk, short of the safe line, and the stored text is cut
C13_Witness ==
    \E a \in Areas :
        /\ fetch_state[a].status = "error"
        /\ fetch_state[a].err = ERR_MAX
        /\ fetch_state[a].lft # NoTime
        /\ fetch_state[a].lft + TRADE_CHUNK_HOURS * HOUR < safe_archive_line(now)
        /\ (tjob.pc = "idle" \/ TArea # a)

\* C14: the step that ends an area's run leaves status warning, with
\* last_error recorded, when an active-window chunk failed in that run
\* (the only writer of status warning is the active-window except branch,
\* which breaks to the last statement), and status ok otherwise.
C14_EndStatus ==
    [][(tjob.pc = "final" /\ tjob' # tjob) =>
          LET a == TArea
          IN  IF fetch_state[a].status = "warning"
              THEN /\ fetch_state'[a].status = "warning"
                   /\ fetch_state'[a].err # NoErr
              ELSE fetch_state'[a].status = "ok"]_vars

\* C15: a realtime run in which a slice could not be fetched, parsed or
\* stored ends with last_realtime_time where the run found it and with
\* status warning.
C15_FailedRunKeepsCheckpoint ==
    (unit.pc = "done" /\ (unit.failed \/ unit.raised)) =>
        /\ unit.row.lrt = unit.lrt0
        /\ unit.status = "warning"

\* C16: every realtime run requests [start, now] with start the checkpoint
\* minus one minute, reset to now - 48h when older than that and to now - 2h
\* when later than now; so now - 48h <= start < now.
C16_WindowClamped ==
    unit.pc \in {"rt_slice", "done"} =>
        LET start == realtime_fetch_start([lrt |-> unit.lrt0])
        IN  /\ unit.end = now
            /\ unit.start = IF start < now - 48 * HOUR THEN now - 48 * HOUR
                            ELSE IF start > now THEN now - 2 * HOUR
                            ELSE start
            /\ now - 48 * HOUR <= unit.start
            /\ unit.start < now

\* C17: every step of fetch_recent_orders requests the slice that follows
\* the last one; the slices requested so far are consecutive from start,
\* ascending, not empty, at most 4 h long, inside [start, end) and no more
\* than the window holds; a slice whose request fails is followed
\* by the next slice; the stream ends exactly when the slices cover
\* [start, end); and a new call starts again from its start.
C17_SlicesPartitionWindow ==
    [][/\ (unit.pc = "rt_slice" /\ unit.cur < unit.end) =>
             /\ Len(unit'.slices) = Len(unit.slices) + 1
             /\ unit'.slices[Len(unit'.slices)].s = unit.cur
             /\ LET sl == unit'.slices
                    n == Len(sl)
                IN  /\ sl[1].s = unit'.start
                    /\ \A i \in 1..n : /\ sl[i].s < sl[i].e
                                       /\ sl[i].e - sl[i].s <= RT_SLICE_HOURS * HOUR
                                       /\ sl[i].e <= unit'.end
                    /\ \A i \in 1..(n - 1) : sl[i + 1].s = sl[i].e
                    /\ n * RT_SLICE_HOURS * HOUR
                          < (unit'.end - unit'.start) + RT_SLICE_HOURS * HOUR
             /\ unit'.last = "http_fail" =>
                   /\ unit'.pc = "rt_slice"
                   /\ unit'.cur = unit'.slices[Len(unit'.slices)].e
       /\ (unit.pc = "rt_slice" /\ unit.cur >= unit.end) =>
             /\ unit'.pc = "done"
             /\ unit'.slices = unit.slices
             /\ unit.start < unit.end =>
                   /\ unit.slices # <<>>
                   /\ unit.slices[Len(unit.slices)].e = unit.end
       /\ (unit.pc \in {"rt_begin", "done"} /\ unit'.pc = "rt_slice") =>
             /\ unit'.cur = unit'.start
             /\ unit'.slices = <<>>]_vars

\* a second call, after a first one that was cut short, requested a slice
\* that failed and still covered a window of more than two slices
C17_Witness ==
    /\ unit.run = 2
    /\ unit.pc = "done"
    /\ unit.failed /\ ~unit.raised
    /\ Len(unit.slices) >= 3
    /\ unit.slices[1].s = unit.start
    /\ unit.slices[Len(unit.slices)].e = unit.end

C19_DeletedOrderAbsent ==
    (unit.pc = "done" /\ unit.op = "get_order_book_at") =>
        /\ unit.result = "book"
        /\ \A t \in unit.log :
              (/\ t.updated_time <= unit.target
               /\ \A u \in unit.log :
                     (u.order_id = t.order_id /\ u.updated_time <= unit.target)
                        => u.updated_time <= t.updated_time
               /\ (t.is_deleted \/ t.volume <= 0))
              => \A i \in 1..Len(unit.book.bids \o unit.book.asks) :
                    (unit.book.bids \o unit.book.asks)[i].id # t.order_id

\* C20: a replay at T returns exactly the orders whose most recent tick at
\* or before T is no deletion and has volume > 0, with that tick's price and
\* volume; the four-tick log replayed at 09:00:04 gives bids [{a,100,7}]
\* and asks [].
C20_ReplayExact ==
    (unit.pc = "done" /\ unit.op = "get_order_book_at") =>
        LET seen == {t \in unit.log : t.updated_time <= unit.target}
            latest == {t \in seen : \A u \in seen :
                          u.order_id = t.order_id =>
                             <<u.updated_time, u.revision_number>> = <<t.updated_time, t.revision_number>>
                             \/ u.updated_time < t.updated_time
                             \/ (u.updated_time = t.updated_time
                                   /\ u.revision_number < t.revision_number)}
            live == {t \in latest : ~t.is_deleted /\ t.volume > 0}
            shown(es) == {<<es[i].id, es[i].price, es[i].volume>> : i \in 1..Len(es)}
            of(side) == {<<t.order_id, t.price, t.volume>> :
                            t \in {x \in live : x.side = side}}
        IN  /\ unit.result = "book"
            /\ shown(unit.book.bids) = of("BUY")
            /\ shown(unit.book.asks) = of("SELL")
            /\ (unit.log = ReplayTicks /\ unit.target = 4) =>
                  /\ shown(unit.book.bids) = {<<"a", 100, 7>>}
                  /\ unit.book.asks = <<>>

\* C21: a response is normalized into one tick per revision with a mapped
\* action, in ascending revision_number whatever the payload order; NEW emits
\* its remaining volume, TRADE/CANCEL/UPDATE emit max(0, previous remaining -
\* current remaining) or 0 without a previous one; no delta is negative, and
\* [NEW(10), Partial(6), Partial(2), Full(0)] emits [10, 4, 4, 2].
C21_DeltaVolumes ==
    unit.pc = "done" =>
        LET mapped == {r \in UpstreamRevisions :
                          /\ \E i \in 1..Len(unit.revisions) : unit.revisions[i] = r
                          /\ map_action_to_type(r.action) # ""}
            prev(r) == {q \in mapped : q.revisionNumber < r.revisionNumber}
            before(r) == CHOOSE q \in prev(r) :
                            \A x \in prev(r) : x.revisionNumber <= q.revisionNumber
            delta(r) == IF map_action_to_type(r.action) = "NEW" THEN r.volume
                        ELSE IF prev(r) = {} THEN 0
                        ELSE IF before(r).volume - r.volume > 0
                             THEN before(r).volume - r.volume ELSE 0
            n == Len(unit.ticks)
        IN  /\ ~unit.raised
            /\ n = Cardinality(mapped)
            /\ \A i \in 1..(n - 1) :
                  unit.ticks[i].revision_number < unit.ticks[i + 1].revision_number
            /\ \A i \in 1..n :
                  /\ unit.ticks[i].volume >= 0
                  /\ \E r \in mapped :
                        /\ r.revisionNumber = unit.ticks[i].revision_number
                        /\ unit.ticks[i].volume = delta(r)
            /\ (\A r \in UpstreamRevisions : r.revisionNumber <= 4 => r \in mapped) =>
                  [i \in 1..n |-> unit.ticks[i].volume] = <<10, 4, 4, 2>>

\* C22: every TRADE tick carries as aggressor the order's own side when
\* updated_time - created_time < 200 ms and the opposite side otherwise; the
\* other ticks carry none; and the TRADE revisions of a response are ticks.
C22_Aggressor ==
    unit.pc = "done" =>
        /\ \A i \in 1..Len(unit.revisions) :
              map_action_to_type(unit.revisions[i].action) = "TRADE" =>
                 \E k \in 1..Len(unit.ticks) :
                    /\ unit.ticks[k].revision_number = unit.revisions[i].revisionNumber
                    /\ unit.ticks[k].type = "TRADE"
                    /\ unit.ticks[k].aggressor_side =
                          IF unit.revisions[i].updatedTime < 200 THEN unit.side
                          ELSE IF unit.side = "BUY" THEN "SELL" ELSE "BUY"
        /\ \A k \in 1..Len(unit.ticks) :
              unit.ticks[k].type # "TRADE" => unit.ticks[k].aggressor_side = "NONE"

\* C23: a run of an area that is past its backfill holds its checkpoint at
\* or after the safe line and requests active-window chunks of at most 12 h
\* from there; when it reaches its last statement it has requested the whole
\* window up to now + 48 h.
C23_WholeActiveWindow ==
    /\ tjob.pc \in {"active", "final"} =>
          /\ archived_time(fetch_state[TArea]) >= safe_archive_line(tjob.now)
          /\ tjob.curr >= safe_archive_line(tjob.now)
          /\ tjob.curr <= future_limit(tjob.now)
    /\ tjob.pc = "active" =>
          trade_chunk_end(tjob.curr, future_limit(tjob.now)) - tjob.curr
              <= TRADE_CHUNK_HOURS * HOUR
    /\ tjob.pc = "final" => tjob.curr = future_limit(tjob.now)

\* C24 as stated: a GET that was answered 401 has caused exactly one token
\* refresh and exactly one retry, and fails when the retry is answered 401.
C24_RefreshOnceRetryOnce ==
    unit.pc = "done" =>
        /\ unit.saw401 => /\ unit.refreshes = 1
                          /\ unit.retries = 1
                          /\ unit.retry401 => unit.result # "ok"
        /\ ~unit.saw401 => unit.refreshes = 0 /\ unit.retries = 0

\* C24: a 401 causes one token refresh; after a refresh that succeeded
\* exactly one retry follows, and a 401 on the retry fails the request with
\* no further refresh; after a refresh that failed the trade client fails
\* the request without a retry, and the order-flow client retries once,
\* after a second refresh attempt when it never held a token.
C24_RefreshThenRetry ==
    /\ unit.refreshes <= 2 /\ unit.retries <= 1
    /\ unit.pc = "done" =>
          /\ (unit.saw401 /\ unit.refresh_ok) =>
                /\ unit.refreshes = 1
                /\ unit.retries = 1
                /\ unit.retry401 => unit.result \in {"PermissionError", "HTTPError"}
          /\ (unit.saw401 /\ ~unit.refresh_ok /\ unit.client = "trade") =>
                /\ unit.refreshes = 1
                /\ unit.retries = 0
                /\ unit.result = "TokenError"
          /\ (unit.saw401 /\ ~unit.refresh_ok /\ unit.client = "orderflow") =>
                /\ unit.retries = 1
                /\ unit.refreshes \in {1, 2}
                /\ unit.refreshes = 2 => unit.token0 = "none"
          /\ ~unit.saw401 => unit.refreshes = 0 /\ unit.retries = 0

\* the trade client was answered 401, refreshed its token, retried once,
\* was answered 401 again and gave up
C24_Witness ==
    /\ unit.client = "trade"
    /\ unit.pc = "done"
    /\ unit.saw401 /\ unit.refresh_ok /\ unit.retry401
    /\ unit.refreshes = 1 /\ unit.retries = 1
    /\ unit.result = "PermissionError"

\* C25: a GET whose failure by transport error or 5xx is surfaced to the
\* caller was attempted 5 times, after 4 waits that never shrink and stay
\* within 60 s; and no GET is attempted more than 5 times.
C25_FiveAttempts ==
    /\ unit.attempt <= STOP_AFTER_ATTEMPT
    /\ (unit.pc = "done" /\ unit.result \in {"RetryError", "HTTPError", "Timeout"}
            /\ ~unit.retry401) =>
          /\ unit.attempt = STOP_AFTER_ATTEMPT
          /\ Len(unit.waits) = STOP_AFTER_ATTEMPT - 1
          /\ \A i \in 1..Len(unit.waits) :
                /\ unit.waits[i] <= 60
                /\ i > 1 => unit.waits[i - 1] <= unit.waits[i]

\* C26: no job has more than one execution in progress, and a trigger that
\* fires while an execution of its job is in progress starts none.
C26_OneInstancePerJob ==
    [][\A j \in JobIds :
          /\ unit'.instances[j] <= 1
          /\ (unit.instances[j] >= 1 /\ unit'.fired[j] > unit.fired[j]) =>
                /\ unit'.instances[j] = unit.instances[j]
                /\ unit'.skipped[j] = unit.skipped[j] + 1]_vars

\* the trade sync is running, a trigger of it was skipped meanwhile, and
\* the candle job runs beside it
C26_Witness ==
    /\ unit.instances["auto_sync_nordpool"] = 1
    /\ unit.skipped["auto_sync_nordpool"] = 1
    /\ unit.fired["auto_sync_nordpool"] = 2
    /\ unit.instances["auto_kline_gen"] = 1

\* C27: two workers that run at the same time process different (area, day,
\* contract_id) and so different cold-store paths, and no worker runs once
\* the pool has been left.
C27_OneWorkerPerContract ==
    /\ \A r1, r2 \in unit.running :
          r1 # r2 =>
             /\ worker_args(unit.area, unit.day, r1) # worker_args(unit.area, unit.day, r2)
             /\ parquet_path(worker_args(unit.area, unit.day, r1))
                   # parquet_path(worker_args(unit.area, unit.day, r2))
    /\ unit.pc = "check" => unit.running = {}

\* two workers of the pool run at the same time
C27_Witness ==
    /\ unit.pc = "pool"
    /\ Cardinality(unit.running) = 2

\* C28: when two sessions have written their overlapping batches, in either
\* order, neither write has failed and the hot store holds exactly the
\* union of the two batches.
C28_ConcurrentUnion ==
    (unit.s[1].pc = "done" /\ unit.s[2].pc = "done"
        /\ unit.s[1].batch \cap unit.s[2].batch # {}) =>
        /\ ~unit.s[1].raised
        /\ ~unit.s[2].raised
        /\ {t.rev : t \in unit.table} = unit.s[1].batch \cup unit.s[2].batch

\* C29: once an archival worker has handled a response with order rows, the
\* contract's ticks are in the cold store and not in the hot store when the
\* day is older than now - 7 days, and in the hot store and not in the cold
\* store otherwise.
C29_HotColdRouting ==
    fjob.pc = "pool" =>
        \A c \in fjob.pending :
            fjob.res[c] = "rows" =>
                IF fjob.curr < hot_cold_threshold(fjob.now)
                THEN /\ <<FArea, fjob.curr, c>> \in cold_files
                     /\ <<FArea, c>> \notin hot_ticks
                ELSE /\ <<FArea, c>> \in hot_ticks
                     /\ <<FArea, fjob.curr, c>> \notin cold_files

\* C30: every stored candle carries, for its contract, area and minute, the
\* values computed over all stored trades of that contract and area whose
\* trade_time lies in that minute: open and close of the earliest and latest
\* trade, high and low, the summed volume, the trade count, and
\* vwap = sum(price * volume) / sum(volume).
C30_CandleOverAllTrades ==
    \A c \in candles :
        LET all == {r \in trades :
                       /\ r[2] = c.area
                       /\ UpstreamTrade(r[1]).cid = c.cid
                       /\ FloorMinute(UpstreamTrade(r[1]).tt) = c.ts}
            got == candle_values(c.rows)
            want == candle_values(all)
        IN  /\ got.open = want.open /\ got.close = want.close
            /\ got.high = want.high /\ got.low = want.low
            /\ got.volume = want.volume
            /\ got.trade_count = want.trade_count
            /\ got.vwap[1] * want.vwap[2] = want.vwap[1] * got.vwap[2]

C32_TypeFromDuration ==
    unit.pc = "record" =>
        LET d == unit.db_record.duration
            near(m) == d - m * MINUTE < MINUTE /\ m * MINUTE - d < MINUTE
        IN  unit.db_record.c_type = IF near(60) THEN "PH"
                                    ELSE IF near(15) THEN "QH" ELSE "Other"

\* C33: every invocation of run_tick performs the strategy step, then the
\* execution step, then persists: after the invocation the state file holds
\* the engine's current cash, position, active orders and slippage and fee
\* totals.
C33_TickPersistsState ==
    unit.last.op = "tick" =>
        /\ unit.last.strategy /\ unit.last.execution /\ unit.last.saved
        /\ unit.file = <<get_state(unit.engine)>>

\* C34: when update_candle feeds the adapter-wrapped legacy strategy a candle
\* with RSI_14 < 30 while the position (which the strategy callback does not
\* change) is below max_pos, the PAPER engine's active orders hold a MARKET
\* order targeting max_pos.
C34_BuySignalPlacesOrder ==
    (/\ unit.last.op = "candle" /\ unit.buy_val = 30
     /\ unit.last.rsi < 30 /\ unit.engine.position < MAX_POS)
        => \E i \in 1..Len(unit.engine.orders) :
               /\ unit.engine.orders[i].type = "MARKET"
               /\ unit.engine.orders[i].target_pos = MAX_POS

\* C40: restore_state on the dictionary of get_state gives an engine with the
\* same cash, position, slippage and fee totals and the same active orders
\* (id, target_pos, type, limit_price, ttl, status, filled_vol), and get_state
\* of the restored engine equals the saved dictionary.
C40_StateRoundTrip ==
    LET e == unit.engine
        r == restore_state(NewEngine, get_state(e))
    IN  /\ r.cash = e.cash /\ r.position = e.position
        /\ r.slippage = e.slippage /\ r.fees = e.fees
        /\ Len(r.orders) = Len(e.orders)
        /\ \A i \in 1..Len(e.orders) :
               /\ r.orders[i].id = e.orders[i].id
               /\ r.orders[i].target_pos = e.orders[i].target_pos
               /\ r.orders[i].type = e.orders[i].type
               /\ r.orders[i].limit_price = e.orders[i].limit_price
               /\ r.orders[i].ttl = e.orders[i].ttl
               /\ r.orders[i].status = e.orders[i].status
               /\ r.orders[i].filled_vol = e.orders[i].filled_vol
        /\ get_state(r) = get_state(e)

\* C35: a backfill step moves last_fetched_time of its area past a chunk only
\* if the trades fetched for that chunk are in the Trade table after the step.
C35_CheckpointOnlyAfterUpsert ==
    [][(/\ tjob.pc = "backfill"
        /\ fetch_state'[TArea].lft # fetch_state[TArea].lft)
          => flatten_and_parse(
                 fetch_api_chunk(TArea, tjob.curr, fetch_state'[TArea].lft, now),
                 TArea) \subseteq trades']_vars

C37_SliceIndependent ==
    unit.pc = "done" =>
        LET sorted == sort_revisions(unit.revisions)
            deltas(res) == [i \in 1..Len(res) |->
                               <<res[i].revision_number, res[i].volume>>]
        IN  /\ ~unit.raised
            /\ \A k \in 0..Len(sorted) :
                   LET first == process_recent_orders_response(
                                    unit.side, SubSeq(sorted, 1, k))
                       second == process_recent_orders_response(
                                     unit.side, SubSeq(sorted, k + 1, Len(sorted)))
                   IN  deltas(first) \o deltas(second) = deltas(unit.ticks)

\* C38: a replay returns a book that depends only on the contract's ticks at
\* or before the target time: any two load orders of those ticks that are
\* sorted by (updated_time, revision_number) give the same bids and asks.
C38_BookOfTickSet ==
    (unit.pc = "done" /\ unit.op = "get_order_book_at") =>
        LET seen == {t \in unit.log : t.updated_time <= unit.target}
            n == Cardinality(seen)
            key(t) == <<t.updated_time, t.revision_number>>
            loads == {l \in [1..n -> seen] :
                         /\ \A i, j \in 1..n : i # j => l[i] # l[j]
                         /\ \A i \in 1..(n - 1) : ~tuple_less(key(l[i + 1]), key(l[i]))}
        IN  /\ unit.result = "book"
            /\ \A l1, l2 \in loads :
                   build_book(replay(l1, 1, <<>>)) = build_book(replay(l2, 1, <<>>))

\* C39: every iteration that stays in the backfill loop, the active-window
\* loop, the historical day loop or the slicing generator moves the loop's
\* time cursor strictly forward and not past the loop's limit, every worker
\* of a day's pool takes one contract off the day's list, and every started
\* run of the trade ingester and of the order-flow ingester ends.
C39_RunsTerminate ==
    /\ [][
            /\ (tjob.pc = "backfill" /\ tjob'.pc = "backfill") =>
                 /\ tjob'.curr > tjob.curr
                 /\ tjob'.curr <= safe_archive_line(tjob.now)
            /\ (tjob.pc = "active" /\ tjob'.pc = "active") =>
                 /\ tjob'.curr > tjob.curr
                 /\ tjob'.curr <= future_limit(tjob.now) ]_<<tjob, fetch_state, trades>>
    /\ [][
            /\ (fjob.pc \in {"hist_list", "pool"} /\ fjob'.pc = "hist_list") =>
                 /\ fjob'.curr > fjob.curr
                 /\ fjob'.curr <= archive_limit(fjob.now)
            /\ (fjob.pc = "pool" /\ fjob'.pc = "pool") =>
                 /\ {c \in ContractIds : fjob'.res[c] = "todo"} \subseteq
                        {c \in ContractIds : fjob.res[c] = "todo"}
                 /\ {c \in ContractIds : fjob'.res[c] = "todo"} #
                        {c \in ContractIds : fjob.res[c] = "todo"}
            /\ (fjob.pc = "rt_slice" /\ fjob'.pc = "rt_slice") =>
                 /\ fjob'.cur > fjob.cur
                 /\ fjob'.cur <= fjob.end ]_<<fjob, of_state, order_contracts, cold_files, hot_ticks>>
    /\ (tjob.pc # "idle") ~> (tjob.pc = "idle")
    /\ (fjob.pc # "idle") ~> (fjob.pc = "idle")

\* a run of the trade ingester that had more than two backfill chunks to
\* fetch has ended after its backfill loop and its active-window loop ran to
\* the end for the last area
C39_Witness ==
    /\ tjob.pc = "idle" /\ ran["trade"]
    /\ Backlog(NoFetchRow, now) > 2
    /\ fetch_state[AUTO_AREAS[Len(AUTO_AREAS)]].status = "ok"
    /\ fetch_state[AUTO_AREAS[Len(AUTO_AREAS)]].lft # NoTime

====
